---- MODULE Spec2Model ----
(***************************************************************************)
(* repodigest: the traversal-and-classification engine.                    *)
(*                                                                         *)
(* FileProcessor.process walks a directory tree, asks the IgnoreHelper and *)
(* the PatternMatcher about every path, classifies every accepted file and *)
(* returns an ordered tree of nodes together with the aggregate            *)
(* statistics.  Strings of the program (paths, names, glob patterns) are   *)
(* sequences of one-character strings, so that the string operations of    *)
(* the code (startsWith, split, concatenation with "/") are computed and   *)
(* not assumed.                                                            *)
(***************************************************************************)
EXTENDS Integers, Sequences, FiniteSets, TLC

(***************************************************************************)
(* String helpers (String.prototype.startsWith / endsWith / split /        *)
(* replace as the code uses them).                                         *)
(***************************************************************************)
StartsWith(s, p) ==
    /\ Len(p) <= Len(s)
    /\ SubSeq(s, 1, Len(p)) = p

EndsWith(s, p) ==
    /\ Len(p) <= Len(s)
    /\ SubSeq(s, Len(s) - Len(p) + 1, Len(s)) = p

Contains(s, p) ==
    \E i \in 1..(Len(s) - Len(p) + 1) : SubSeq(s, i, i + Len(p) - 1) = p

\* s.split(c) for a one-character separator c
RECURSIVE SplitChar(_, _)
SplitChar(s, c) ==
    IF \A i \in 1..Len(s) : s[i] # c
    THEN <<s>>
    ELSE LET k == CHOOSE i \in 1..Len(s) :
                     s[i] = c /\ \A j \in 1..(i - 1) : s[j] # c
         IN  <<SubSeq(s, 1, k - 1)>> \o SplitChar(SubSeq(s, k + 1, Len(s)), c)

\* `${a}/${b}`
JoinPath(a, b) == a \o <<"/">> \o b

\* String.prototype.localeCompare (ICU root collation) on the characters
\* of the model's names: punctuation before digits before letters; an
\* upper-case letter has the primary weight of its lower-case letter, and
\* only when two names are equal up to case does the case of the first
\* differing letter decide, lower case first.
PrimaryWeight ==
    ("*" :> 1) @@ ("." :> 2) @@ ("/" :> 3) @@ ("0" :> 4) @@ ("1" :> 5) @@
    ("2" :> 6) @@ ("3" :> 7) @@ ("4" :> 8) @@ ("5" :> 9) @@ ("6" :> 10) @@
    ("7" :> 11) @@ ("8" :> 12) @@ ("9" :> 13) @@ ("a" :> 14) @@
    ("A" :> 14) @@ ("b" :> 15) @@ ("B" :> 15) @@ ("c" :> 16) @@
    ("C" :> 16) @@ ("d" :> 17) @@ ("D" :> 17) @@ ("e" :> 18) @@
    ("E" :> 18) @@ ("f" :> 19) @@ ("F" :> 19) @@ ("g" :> 20) @@
    ("G" :> 20) @@ ("h" :> 21) @@ ("H" :> 21) @@ ("i" :> 22) @@
    ("I" :> 22) @@ ("j" :> 23) @@ ("J" :> 23) @@ ("k" :> 24) @@
    ("K" :> 24) @@ ("l" :> 25) @@ ("L" :> 25) @@ ("m" :> 26) @@
    ("M" :> 26) @@ ("n" :> 27) @@ ("N" :> 27) @@ ("o" :> 28) @@
    ("O" :> 28) @@ ("p" :> 29) @@ ("P" :> 29) @@ ("q" :> 30) @@
    ("Q" :> 30) @@ ("r" :> 31) @@ ("R" :> 31) @@ ("s" :> 32) @@
    ("S" :> 32) @@ ("t" :> 33) @@ ("T" :> 33) @@ ("u" :> 34) @@
    ("U" :> 34) @@ ("v" :> 35) @@ ("V" :> 35) @@ ("w" :> 36) @@
    ("W" :> 36) @@ ("x" :> 37) @@ ("X" :> 37) @@ ("y" :> 38) @@
    ("Y" :> 38) @@ ("z" :> 39) @@ ("Z" :> 39)

UpperCase ==
    {"A", "B", "C", "D", "E", "F", "G", "H", "I", "J", "K", "L", "M",
     "N", "O", "P", "Q", "R", "S", "T", "U", "V", "W", "X", "Y", "Z"}

IsUpper(c) == c \in UpperCase

CharRank(c) == PrimaryWeight[c]

\* the comparison of the primary weights: -1, 0 or 1
RECURSIVE ComparePrimary(_, _)
ComparePrimary(a, b) ==
    IF a = <<>> /\ b = <<>> THEN 0
    ELSE IF a = <<>> THEN -1
    ELSE IF b = <<>> THEN 1
    ELSE IF CharRank(Head(a)) < CharRank(Head(b)) THEN -1
    ELSE IF CharRank(Head(a)) > CharRank(Head(b)) THEN 1
    ELSE ComparePrimary(Tail(a), Tail(b))

\* the comparison of the case of two names that are equal up to case
RECURSIVE CompareCase(_, _)
CompareCase(a, b) ==
    IF a = <<>> \/ b = <<>> THEN 0
    ELSE IF Head(a) = Head(b) THEN CompareCase(Tail(a), Tail(b))
    ELSE IF IsUpper(Head(b)) THEN -1 ELSE 1

\* a.localeCompare(b): -1, 0 or 1
localeCompare(a, b) ==
    IF ComparePrimary(a, b) # 0 THEN ComparePrimary(a, b) ELSE CompareCase(a, b)

(***************************************************************************)
(* The `ignore` package (gitignore rules), as PatternMatcher and           *)
(* IgnoreHelper use it: ignore().add(patterns) and .ignores(path).         *)
(***************************************************************************)

\* One path segment against one pattern segment: "*" matches any run of
\* characters of the segment (never a "/"), everything else literally.
RECURSIVE GlobFrom(_, _, _, _)
GlobFrom(pat, i, seg, j) ==
    IF i > Len(pat) THEN j > Len(seg)
    ELSE IF pat[i] = "*"
         THEN \/ GlobFrom(pat, i + 1, seg, j)
              \/ (j <= Len(seg) /\ GlobFrom(pat, i, seg, j + 1))
         ELSE /\ j <= Len(seg)
              /\ seg[j] = pat[i]
              /\ GlobFrom(pat, i + 1, seg, j + 1)

GlobSegment(pat, seg) == GlobFrom(pat, 1, seg, 1)

\* The segments of an anchored pattern against the segments of a path.
\* A leading or inner "**" stands for zero or more directories, a
\* trailing "**" for at least one more segment.
RECURSIVE GlobSegments(_, _)
GlobSegments(pats, segs) ==
    IF pats = <<>> THEN segs = <<>>
    ELSE IF Head(pats) = <<"*", "*">>
         THEN IF Len(pats) = 1
              THEN segs # <<>>
              ELSE \/ GlobSegments(Tail(pats), segs)
                   \/ (segs # <<>> /\ GlobSegments(pats, Tail(segs)))
         ELSE /\ segs # <<>>
              /\ GlobSegment(Head(pats), Head(segs))
              /\ GlobSegments(Tail(pats), Tail(segs))

\* A rule of the `ignore` package, made from one pattern line.
\*   negative : the pattern starts with "!"
\*   dirOnly  : the pattern ends with "/" (matches directories only)
\*   anchored : a "/" at the beginning or in the middle
MakeRule(pattern) ==
    LET negative == pattern # <<>> /\ Head(pattern) = "!"
        body0    == IF negative THEN Tail(pattern) ELSE pattern
        dirOnly  == body0 # <<>> /\ body0[Len(body0)] = "/"
        body1    == IF dirOnly THEN SubSeq(body0, 1, Len(body0) - 1) ELSE body0
        anchored == \E i \in 1..Len(body1) : body1[i] = "/"
        body2    == IF body1 # <<>> /\ Head(body1) = "/" THEN Tail(body1) ELSE body1
    IN  [negative |-> negative,
         dirOnly  |-> dirOnly,
         anchored |-> anchored,
         segments |-> SplitChar(body2, "/")]

\* ignore().add(patterns): the rules of the patterns, in order
MakeRules(patterns) == [i \in 1..Len(patterns) |-> MakeRule(patterns[i])]

\* The regular expression of a rule against a path, given by its
\* segments; isDir when the path ends with "/" (it is tested as a
\* directory).
RuleMatches(rule, segs, isDir) ==
    /\ (rule.dirOnly => isDir)
    /\ IF rule.anchored
       THEN GlobSegments(rule.segments, segs)
       ELSE GlobSegment(rule.segments[1], segs[Len(segs)])

\* Ignore._testOne: the rules in order, the last one that matches decides.
TestOne(rules, segs, isDir) ==
    LET matching == {i \in 1..Len(rules) : RuleMatches(rules[i], segs, isDir)}
    IN  /\ matching # {}
        /\ ~rules[CHOOSE i \in matching : \A j \in matching : j <= i].negative

\* Ignore.ignores(path): a path is ignored as soon as one of its parent
\* directories is, otherwise by the rules applied to the path itself.
Ignores(rules, path) ==
    LET isDir == path # <<>> /\ path[Len(path)] = "/"
        bare  == IF isDir THEN SubSeq(path, 1, Len(path) - 1) ELSE path
        segs  == SplitChar(bare, "/")
    IN  \/ \E k \in 1..(Len(segs) - 1) : TestOne(rules, SubSeq(segs, 1, k), TRUE)
        \/ TestOne(rules, segs, isDir)

(***************************************************************************)
(* Optional values (a field that may be undefined).                        *)
(***************************************************************************)
None == <<>>
Some(v) == <<v>>

\* processDirectory / processFile return a FileNode or null
Null == [type |-> "null"]

(***************************************************************************)
(* Program constants.                                                      *)
(***************************************************************************)
\* the length above which largestFiles is sorted and cut
LARGEST_FILES_LIMIT == 10
\* SIZE_LIMITS.CHUNK_SIZE
CHUNK_SIZE == 1024
\* the default of --max-size
DEFAULT_MAX_SIZE == 10485760

\* DEFAULT_IGNORE_PATTERNS
DEFAULT_IGNORE_PATTERNS ==
    << <<".", "g", "i", "t", "/">>, <<".", "s", "v", "n", "/">>, <<".", "h", "g", "/">>, <<".", "b", "z", "r", "/">>,
       <<"n", "o", "d", "e", "_", "m", "o", "d", "u", "l", "e", "s", "/">>, <<"b", "o", "w", "e", "r", "_", "c", "o", "m", "p", "o", "n", "e", "n", "t", "s", "/">>, <<"v", "e", "n", "d", "o", "r", "/">>, <<"p", "a", "c", "k", "a", "g", "e", "s", "/">>,
       <<".", "p", "n", "p", "/">>, <<".", "p", "n", "p", ".", "j", "s">>, <<".", "y", "a", "r", "n", "/">>, <<".", "n", "p", "m", "/">>,
       <<"d", "i", "s", "t", "/">>, <<"b", "u", "i", "l", "d", "/">>, <<"o", "u", "t", "/">>, <<"l", "i", "b", "/">>, <<"t", "a", "r", "g", "e", "t", "/">>, <<"b", "i", "n", "/">>,
       <<".", "n", "e", "x", "t", "/">>, <<".", "n", "u", "x", "t", "/">>, <<".", "v", "u", "e", "p", "r", "e", "s", "s", "/", "d", "i", "s", "t", "/">>, <<".", "d", "o", "c", "u", "s", "a", "u", "r", "u", "s", "/">>,
       <<".", "c", "a", "c", "h", "e", "/">>, <<".", "t", "u", "r", "b", "o", "/">>, <<".", "n", "x", "/">>, <<".", "p", "a", "r", "c", "e", "l", "-", "c", "a", "c", "h", "e", "/">>,
       <<".", "v", "i", "t", "e", "/">>, <<".", "r", "o", "l", "l", "u", "p", ".", "c", "a", "c", "h", "e", "/">>, <<".", "e", "s", "b", "u", "i", "l", "d", "/">>,
       <<".", "v", "s", "c", "o", "d", "e", "/">>, <<".", "i", "d", "e", "a", "/">>, <<"*", ".", "s", "u", "b", "l", "i", "m", "e", "-", "*">>, <<".", "h", "i", "s", "t", "o", "r", "y", "/">>,
       <<".", "D", "S", "_", "S", "t", "o", "r", "e">>, <<"T", "h", "u", "m", "b", "s", ".", "d", "b">>, <<"d", "e", "s", "k", "t", "o", "p", ".", "i", "n", "i">>,
       <<"*", ".", "l", "o", "g">>, <<"l", "o", "g", "s", "/">>, <<"*", ".", "t", "m", "p">>, <<"*", ".", "t", "e", "m", "p">>, <<"*", ".", "s", "w", "p">>, <<"*", ".", "s", "w", "o">>,
       <<".", "e", "n", "v", "*">>, <<"*", ".", "k", "e", "y">>, <<"*", ".", "p", "e", "m">>, <<"*", ".", "c", "r", "t">>, <<"*", ".", "c", "e", "r", "t">>,
       <<"c", "o", "v", "e", "r", "a", "g", "e", "/">>, <<".", "n", "y", "c", "_", "o", "u", "t", "p", "u", "t", "/">>, <<".", "c", "o", "v", "e", "r", "a", "g", "e">>,
       <<"_", "_", "p", "y", "c", "a", "c", "h", "e", "_", "_", "/">>, <<"*", ".", "p", "y", "c">>, <<"*", ".", "p", "y", "o">>,
       <<"*", ".", "c", "l", "a", "s", "s">>, <<"*", ".", "j", "a", "r">>, <<"*", ".", "w", "a", "r">>,
       <<"*", ".", "o">>, <<"*", ".", "o", "b", "j">>, <<"*", ".", "e", "x", "e">>, <<"*", ".", "d", "l", "l">>, <<"*", ".", "s", "o">>,
       <<"p", "a", "c", "k", "a", "g", "e", "-", "l", "o", "c", "k", ".", "j", "s", "o", "n">>, <<"y", "a", "r", "n", ".", "l", "o", "c", "k">>, <<"p", "n", "p", "m", "-", "l", "o", "c", "k", ".", "y", "a", "m", "l">>,
       <<"P", "i", "p", "f", "i", "l", "e", ".", "l", "o", "c", "k">>, <<"p", "o", "e", "t", "r", "y", ".", "l", "o", "c", "k">>, <<"G", "e", "m", "f", "i", "l", "e", ".", "l", "o", "c", "k">>,
       <<"_", "s", "i", "t", "e", "/">>, <<"s", "i", "t", "e", "/">>, <<"d", "o", "c", "s", "/", "_", "b", "u", "i", "l", "d", "/">>,
       <<".", "a", "n", "d", "r", "o", "i", "d", "/">>, <<".", "i", "o", "s", "/">>, <<"P", "o", "d", "s", "/">>,
       <<"L", "i", "b", "r", "a", "r", "y", "/">>, <<"T", "e", "m", "p", "/">>, <<"O", "b", "j", "/">>, <<"B", "u", "i", "l", "d", "s", "/">>,
       <<"*", ".", "z", "i", "p">>, <<"*", ".", "t", "a", "r", ".", "g", "z">>, <<"*", ".", "r", "a", "r">>, <<"*", ".", "7", "z">>,
       <<"*", ".", "p", "d", "f">>, <<"*", ".", "d", "o", "c">>, <<"*", ".", "d", "o", "c", "x">>, <<"*", ".", "x", "l", "s">>, <<"*", ".", "x", "l", "s", "x">> >>

\* BINARY_EXTENSIONS
BINARY_EXTENSIONS ==
    { <<".", "p", "n", "g">>, <<".", "j", "p", "g">>, <<".", "j", "p", "e", "g">>, <<".", "g", "i", "f">>, <<".", "b", "m", "p">>, <<".", "t", "i", "f", "f">>, <<".", "w", "e", "b", "p">>, <<".", "i", "c", "o">>, <<".", "s", "v", "g">>,
      <<".", "p", "s", "d">>, <<".", "a", "i">>, <<".", "s", "k", "e", "t", "c", "h">>, <<".", "f", "i", "g">>, <<".", "x", "c", "f">>, <<".", "r", "a", "w">>, <<".", "c", "r", "2">>, <<".", "n", "e", "f">>,
      <<".", "m", "p", "4">>, <<".", "m", "k", "v">>, <<".", "m", "o", "v">>, <<".", "a", "v", "i">>, <<".", "w", "m", "v">>, <<".", "f", "l", "v">>, <<".", "w", "e", "b", "m">>, <<".", "m", "4", "v">>, <<".", "m", "p", "g">>,
      <<".", "m", "p", "3">>, <<".", "w", "a", "v">>, <<".", "o", "g", "g">>, <<".", "f", "l", "a", "c">>, <<".", "a", "a", "c">>, <<".", "m", "4", "a">>, <<".", "w", "m", "a">>, <<".", "o", "p", "u", "s">>,
      <<".", "z", "i", "p">>, <<".", "r", "a", "r">>, <<".", "7", "z">>, <<".", "t", "a", "r">>, <<".", "g", "z">>, <<".", "b", "z", "2">>, <<".", "x", "z">>, <<".", "t", "g", "z">>, <<".", "d", "e", "b">>, <<".", "r", "p", "m">>,
      <<".", "e", "x", "e">>, <<".", "d", "l", "l">>, <<".", "s", "o">>, <<".", "d", "y", "l", "i", "b">>, <<".", "a", "p", "p">>, <<".", "d", "m", "g">>, <<".", "p", "k", "g">>, <<".", "m", "s", "i">>,
      <<".", "p", "d", "f">>, <<".", "d", "o", "c">>, <<".", "d", "o", "c", "x">>, <<".", "x", "l", "s">>, <<".", "x", "l", "s", "x">>, <<".", "p", "p", "t">>, <<".", "p", "p", "t", "x">>,
      <<".", "t", "t", "f">>, <<".", "o", "t", "f">>, <<".", "w", "o", "f", "f">>, <<".", "w", "o", "f", "f", "2">>, <<".", "e", "o", "t">>,
      <<".", "d", "b">>, <<".", "s", "q", "l", "i", "t", "e">>, <<".", "s", "q", "l", "i", "t", "e", "3">>, <<".", "m", "d", "b">>,
      <<".", "b", "i", "n">>, <<".", "d", "a", "t">>, <<".", "i", "s", "o">>, <<".", "i", "m", "g">> }

\* LANGUAGE_EXTENSIONS, in table order: the rows that a name of the
\* model's file systems can match.
LANGUAGE_EXTENSIONS ==
    << [language |-> "JavaScript", extensions |-> <<<<".", "j", "s">>, <<".", "j", "s", "x">>, <<".", "m", "j", "s">>, <<".", "c", "j", "s">>>>],
       [language |-> "TypeScript", extensions |-> <<<<".", "t", "s">>, <<".", "t", "s", "x">>, <<".", "d", ".", "t", "s">>>>],
       [language |-> "Python",     extensions |-> <<<<".", "p", "y">>, <<".", "p", "y", "w">>, <<".", "p", "y", "x">>, <<".", "p", "y", "i">>>>],
       [language |-> "Markdown",   extensions |-> <<<<".", "m", "d">>, <<".", "m", "a", "r", "k", "d", "o", "w", "n">>, <<".", "m", "d", "o", "w", "n">>>>],
       [language |-> "JSON",       extensions |-> <<<<".", "j", "s", "o", "n">>, <<".", "j", "s", "o", "n", "c">>, <<".", "j", "s", "o", "n", "5">>>>] >>

\* mime-types' lookup(path) by extension (the mime-db rows for the
\* extensions of the model's file systems); None when the type is unknown.
MimeLookup(ext) ==
    IF ext = <<".", "m", "d">> THEN Some(<<"t", "e", "x", "t", "/", "m", "a", "r", "k", "d", "o", "w", "n">>)
    ELSE IF ext = <<".", "t", "x", "t">> THEN Some(<<"t", "e", "x", "t", "/", "p", "l", "a", "i", "n">>)
    ELSE IF ext = <<".", "l", "o", "g">> THEN Some(<<"t", "e", "x", "t", "/", "p", "l", "a", "i", "n">>)
    ELSE IF ext = <<".", "t", "s">> THEN Some(<<"v", "i", "d", "e", "o", "/", "m", "p", "2", "t">>)
    ELSE IF ext = <<".", "j", "s">> THEN Some(<<"a", "p", "p", "l", "i", "c", "a", "t", "i", "o", "n", "/", "j", "a", "v", "a", "s", "c", "r", "i", "p", "t">>)
    ELSE IF ext = <<".", "j", "s", "o", "n">> THEN Some(<<"a", "p", "p", "l", "i", "c", "a", "t", "i", "o", "n", "/", "j", "s", "o", "n">>)
    ELSE IF ext = <<".", "b", "i", "n">> THEN Some(<<"a", "p", "p", "l", "i", "c", "a", "t", "i", "o", "n", "/", "o", "c", "t", "e", "t", "-", "s", "t", "r", "e", "a", "m">>)
    ELSE None

(***************************************************************************)
(* path.basename / path.extname                                            *)
(***************************************************************************)
basename(p) == LET segs == SplitChar(p, "/") IN segs[Len(segs)]

extname(p) ==
    LET b    == basename(p)
        dots == {i \in 2..Len(b) : b[i] = "."}
    IN  IF dots = {} THEN <<>>
        ELSE LET k == CHOOSE i \in dots : \A j \in dots : j <= i
             IN  SubSeq(b, k, Len(b))

\* String.prototype.toLowerCase on the characters of a path
LowerCase ==
    ("A" :> "a") @@ ("B" :> "b") @@ ("C" :> "c") @@ ("D" :> "d") @@ ("E" :> "e") @@
    ("F" :> "f") @@ ("G" :> "g") @@ ("H" :> "h") @@ ("I" :> "i") @@ ("J" :> "j") @@
    ("K" :> "k") @@ ("L" :> "l") @@ ("M" :> "m") @@ ("N" :> "n") @@ ("O" :> "o") @@
    ("P" :> "p") @@ ("Q" :> "q") @@ ("R" :> "r") @@ ("S" :> "s") @@ ("T" :> "t") @@
    ("U" :> "u") @@ ("V" :> "v") @@ ("W" :> "w") @@ ("X" :> "x") @@ ("Y" :> "y") @@
    ("Z" :> "z")

ToLower(s) == [i \in 1..Len(s) |-> IF s[i] \in DOMAIN LowerCase THEN LowerCase[s[i]] ELSE s[i]]

\* the relative path of the directory that holds p ("" for a root entry)
dirname(p) ==
    LET slashes == {i \in 1..Len(p) : p[i] = "/"}
    IN  IF slashes = {} THEN <<>>
        ELSE LET k == CHOOSE i \in slashes : \A j \in slashes : j <= i
             IN  SubSeq(p, 1, k - 1)

\* number of directory levels between the root and the path p (root = 0)
DepthOf(p) == IF p = <<>> THEN 0 ELSE Len(SplitChar(p, "/"))
(***************************************************************************)
(* Bounds of the model.                                                    *)
(***************************************************************************)
\* --depth ranges over "not given" and 0..MaxDepthOption
MaxDepthOption == 2
\* the small value of --max-size that is tried besides the default
SmallMaxSize == 2
\* file contents are dealt to the files with strides 0..MaxStride
MaxStride == 2
\* fs.readdir enumeration orders 0..MaxOrder
MaxOrder == 1
\* number of files of the flat file system
NumWide == 11
\* Date.now() - startTime ranges over 0..MaxElapsed
MaxElapsed == 0

(***************************************************************************)
(* The file systems that are walked.  A file system is a record            *)
(*   files : relative path -> content (a sequence of bytes/characters)     *)
(*   dirs  : the relative paths of its directories (the root is "")        *)
(* The size of a file is the length of its content.                        *)
(***************************************************************************)
RepoName == <<"r", "e", "p", "o">>

NUL == "0x00"

Contents ==
    << <<>>,
       <<"x">>,
       <<"a", "b", "\n", "c", "d">>,
       <<NUL, "x">> >>

\* the content dealt to the i-th file of a file system
ContentFor(i, stride) == Contents[((i * stride + 1) % Len(Contents)) + 1]

MixedFiles ==
    << <<"R", "E", "A", "D", "M", "E", ".", "m", "d">>, <<"f", "o", "o", ".", "t", "s">>, <<"f", "o", "o", ".", "t", "e", "s", "t", ".", "t", "s">>, <<"d", "e", "b", "u", "g", ".", "l", "o", "g">>, <<"n", "o", "t", "e", "s", ".", "t", "x", "t">>,
       <<"s", "r", "c", "/", "i", "n", "d", "e", "x", ".", "t", "s">>, <<"s", "r", "c", "/", "a", "/", "d", "e", "e", "p", ".", "t", "s">>, <<"d", "o", "c", "s", "/", "g", "u", "i", "d", "e", ".", "m", "d">> >>

GitignorePath == <<".", "g", "i", "t", "i", "g", "n", "o", "r", "e">>
EmptyDirectory == <<"e", "m", "p", "t", "y">>
GitignoreContent == <<"#", " ", "l", "o", "c", "a", "l", "\n", "\n", " ", "n", "o", "t", "e", "s", ".", "t", "x", "t", " ", "\n", "t", "m", "p", "\n">>
\* a file in a directory that the .gitignore of the root names
ScratchFile == <<"t", "m", "p", "/", "x", ".", "t", "x", "t">>

Digits == <<"0", "1", "2", "3", "4", "5", "6", "7", "8", "9">>
WideName(i) == <<"w", Digits[(i \div 10) + 1], Digits[(i % 10) + 1]>>

\* all the directories above the path p
RECURSIVE Ancestors(_)
Ancestors(p) ==
    IF dirname(p) = <<>> THEN {} ELSE {dirname(p)} \cup Ancestors(dirname(p))

MakeFs(paths, stride, extraFiles, extraDirs) ==
    LET named == {paths[i] : i \in 1..Len(paths)} \cup DOMAIN extraFiles
    IN  [files |-> [p \in named |->
                      IF p \in DOMAIN extraFiles THEN extraFiles[p]
                      ELSE ContentFor(CHOOSE i \in 1..Len(paths) : paths[i] = p, stride)],
         dirs  |-> UNION {Ancestors(p) : p \in named} \cup extraDirs]

NoFiles == [p \in {} |-> <<>>]

Keep(paths, kept) == SelectSeq(paths, LAMBDA p : p \in kept)

\* the whole mixed tree, with an ignore file and an empty directory
FullTree(stride) ==
    MakeFs(MixedFiles, stride,
           (GitignorePath :> GitignoreContent) @@ (ScratchFile :> <<"x", "\n">>),
           {EmptyDirectory})
\* no file directly in the root
NestedTree(stride) ==
    MakeFs(Keep(MixedFiles, {<<"s", "r", "c", "/", "i", "n", "d", "e", "x", ".", "t", "s">>, <<"s", "r", "c", "/", "a", "/", "d", "e", "e", "p", ".", "t", "s">>, <<"d", "o", "c", "s", "/", "g", "u", "i", "d", "e", ".", "m", "d">>}),
           stride, NoFiles, {})
\* README.md and src/index.ts
ReadmeTree(stride) ==
    MakeFs(Keep(MixedFiles, {<<"R", "E", "A", "D", "M", "E", ".", "m", "d">>, <<"s", "r", "c", "/", "i", "n", "d", "e", "x", ".", "t", "s">>}), stride, NoFiles, {})
\* foo.ts and foo.test.ts
TestTree(stride) ==
    MakeFs(Keep(MixedFiles, {<<"f", "o", "o", ".", "t", "s">>, <<"f", "o", "o", ".", "t", "e", "s", "t", ".", "t", "s">>}), stride, NoFiles, {})
\* NumWide files in the root
WideTree(stride) ==
    MakeFs([i \in 1..NumWide |-> WideName(i)], stride, NoFiles, {})

\* a directory a that holds the text file b.txt and the binary file c.bin
TextFile == <<"a", "/", "b", ".", "t", "x", "t">>
BinaryFile == <<"a", "/", "c", ".", "b", "i", "n">>
ScenarioTree ==
    [files |-> (TextFile :> <<"h", "e", "l", "l", "o", "\n", "w", "o", "r", "l", "d">>) @@
               (BinaryFile :> <<NUL, "x", NUL>>),
     dirs  |-> {<<"a">>}]

\* files that the rules of isBinaryFile tell apart: an empty file with an
\* extension of the table, an empty text file, a text file of a MIME type
\* that is not text, a JSON file, a text file with a NUL byte, a file
\* whose first NUL byte lies behind the probed chunk, a text file whose
\* content is the marker of binary files, a file without an extension
EmptyImage == <<"P", ".", "P", "N", "G">>
EmptyText == <<"e", "m", "p", "t", "y", ".", "t", "x", "t">>
ScriptFile == <<"f", "o", "o", ".", "t", "s">>
JsonFile == <<"d", "a", "t", "a", ".", "j", "s", "o", "n">>
NulFile == <<"n", "u", "l", ".", "t", "x", "t">>
LongFile == <<"l", "o", "n", "g", ".", "t", "x", "t">>
MarkerFile == <<"m", "a", "r", "k", "e", "r", ".", "t", "x", "t">>
PlainFile == <<"p", "l", "a", "i", "n">>
ProbeTree ==
    [files |-> (EmptyImage :> <<>>) @@
               (EmptyText :> <<>>) @@
               (ScriptFile :> <<"x">>) @@
               (JsonFile :> <<"{", "}">>) @@
               (NulFile :> <<"a", NUL>>) @@
               (LongFile :> [i \in 1..(CHUNK_SIZE + 1) |-> IF i > CHUNK_SIZE THEN NUL ELSE "x"]) @@
               (MarkerFile :> <<"[", "b", "i", "n", "a", "r", "y", "]">>) @@
               (PlainFile :> <<"a", "b">>),
     dirs  |-> {}]

\* a project with a Python source file next to the directory a, and a
\* root that holds nothing
SourceFile == <<"m", "a", "i", "n", ".", "p", "y">>
ProjectTree ==
    [files |-> (TextFile :> <<"h", "e", "l", "l", "o", "\n", "w", "o", "r", "l", "d">>) @@
               (BinaryFile :> <<NUL, "x", NUL>>) @@
               (SourceFile :> <<"x", " ", "=", " ", "1", "\n">>),
     dirs  |-> {<<"a">>}]
EmptyTree == [files |-> NoFiles, dirs |-> {}]

MixedTrees(stride) ==
    {FullTree(stride), NestedTree(stride), ReadmeTree(stride), TestTree(stride)}

IsFile(f, p) == p \in DOMAIN f.files
IsDirectory(f, p) == p = <<>> \/ p \in f.dirs
SizeOf(f, p) == Len(f.files[p])

\* the names that fs.readdir(dir) returns, as a set
EntryNames(f, dir) ==
    {basename(p) : p \in {q \in DOMAIN f.files \cup f.dirs : dirname(q) = dir}}

\* a set of names as the sequence in increasing order
RECURSIVE InsertName(_, _)
InsertName(sorted, n) ==
    IF sorted = <<>> THEN <<n>>
    ELSE IF localeCompare(Head(sorted), n) > 0 THEN <<n>> \o sorted
    ELSE <<Head(sorted)>> \o InsertName(Tail(sorted), n)

RECURSIVE SortedNames(_)
SortedNames(S) ==
    IF S = {} THEN <<>>
    ELSE LET n == CHOOSE a \in S : TRUE
         IN  InsertName(SortedNames(S \ {n}), n)

Reverse(s) == [i \in 1..Len(s) |-> s[Len(s) + 1 - i]]
Rotate(s, k) ==
    IF s = <<>> THEN s
    ELSE [i \in 1..Len(s) |-> s[((i - 1 + k) % Len(s)) + 1]]

\* the order in which the file system hands out the entries of a
\* directory: sorted, rotated by ord \div 2, reversed when ord is odd
Enumerate(names, ord) ==
    LET rotated == Rotate(SortedNames(names), ord \div 2)
    IN  IF ord % 2 = 1 THEN Reverse(rotated) ELSE rotated

(***************************************************************************)
(* The command line options of a walk.                                     *)
(***************************************************************************)
IncludeChoices ==
    { None,
      Some(<<<<"*", "*", "/", "*", ".", "m", "d">>>>),
      Some(<<<<"s", "r", "c", "/", "*", "*", "/", "*", ".", "t", "s">>, <<"*", "*", "/", "*", ".", "m", "d">>>>),
      Some(<<<<"g", "u", "i", "d", "e", ".", "m", "d">>>>),
      Some(<<<<"s", "r", "c", "/", "*", "/", "d", "e", "e", "p", ".", "t", "s">>>>) }

ExcludeChoices ==
    { None,
      Some(<<<<"*", ".", "t", "e", "s", "t", ".", "*">>>>),
      Some(<<<<"d", "o", "c", "s", "/">>>>),
      Some(<<<<"s", "r", "c">>>>),
      Some(<<<<"*", ".", "t", "s">>>>) }

DepthChoices == {None} \cup {Some(d) : d \in 0..MaxDepthOption}

\* Number.prototype.toString / parseInt(s, 10) on decimal digits
RECURSIVE ToDigits(_)
ToDigits(n) ==
    IF n < 10 THEN <<Digits[n + 1]>>
    ELSE ToDigits(n \div 10) \o <<Digits[(n % 10) + 1]>>

DigitValue(c) == (CHOOSE i \in 1..10 : Digits[i] = c) - 1

RECURSIVE parseInt(_)
parseInt(s) ==
    IF Len(s) = 1 THEN DigitValue(s[1])
    ELSE 10 * parseInt(SubSeq(s, 1, Len(s) - 1)) + DigitValue(s[Len(s)])

MaxSizeChoices == {ToDigits(SmallMaxSize), ToDigits(DEFAULT_MAX_SIZE)}

DefaultOptions ==
    [maxSize           |-> ToDigits(DEFAULT_MAX_SIZE),
     includePattern    |-> None,
     excludePattern    |-> None,
     includeGitignored |-> FALSE,
     language          |-> <<>>,
     depth             |-> None,
     format            |-> "text",
     output            |-> <<"d", "i", "g", "e", "s", "t", ".", "t", "x", "t">>,
     force             |-> FALSE,
     stats             |-> FALSE,
     compress          |-> FALSE,
     aiAnalysis        |-> FALSE,
     aiSummary         |-> FALSE,
     securityScan      |-> FALSE]

\* the I/O operations that can fail during a walk: at most one per walk
FaultChoices ==
    { None,
      Some([op |-> "readdir",  path |-> <<"d", "o", "c", "s">>]),
      Some([op |-> "readdir",  path |-> <<"s", "r", "c", "/", "a">>]),
      Some([op |-> "readFile", path |-> <<"R", "E", "A", "D", "M", "E", ".", "m", "d">>]),
      Some([op |-> "open",     path |-> <<"d", "o", "c", "s", "/", "g", "u", "i", "d", "e", ".", "m", "d">>]),
      Some([op |-> "readdir",  path |-> <<>>]),
      Some([op |-> "stat",     path |-> <<"f", "o", "o", ".", "t", "s">>]) }

\* the I/O operations that can fail during a walk of the scenario tree;
\* "isBinaryFile.stat" and "isBinaryFile.read" are the fs.stat and the
\* fileHandle.read of isBinaryFile, failing after getFileStats succeeded
ProbeFaults ==
    { None,
      Some([op |-> "readFile",          path |-> TextFile]),
      Some([op |-> "isBinaryFile.stat", path |-> TextFile]),
      Some([op |-> "open",              path |-> TextFile]),
      Some([op |-> "isBinaryFile.read", path |-> TextFile]),
      Some([op |-> "readdir",           path |-> <<"a">>]) }

Fails(flt, op, path) == flt = Some([op |-> op, path |-> path])
(***************************************************************************)
(* IgnoreHelper                                                            *)
(***************************************************************************)
IgnoreFileNames ==
    << <<".", "g", "i", "t", "i", "g", "n", "o", "r", "e">>, <<".", "n", "p", "m", "i", "g", "n", "o", "r", "e">>, <<".", "d", "o", "c", "k", "e", "r", "i", "g", "n", "o", "r", "e">>, <<".", "e", "s", "l", "i", "n", "t", "i", "g", "n", "o", "r", "e">>,
       <<".", "p", "r", "e", "t", "t", "i", "e", "r", "i", "g", "n", "o", "r", "e">>, <<".", "r", "e", "p", "o", "d", "i", "g", "e", "s", "t", "i", "g", "n", "o", "r", "e">> >>

IsSpace(c) == c \in {" ", "\t", "\r", "\n"}

\* String.prototype.trim
RECURSIVE Trim(_)
Trim(s) ==
    IF s = <<>> THEN s
    ELSE IF IsSpace(Head(s)) THEN Trim(Tail(s))
    ELSE IF IsSpace(s[Len(s)]) THEN Trim(SubSeq(s, 1, Len(s) - 1))
    ELSE s

\* IgnoreHelper.loadIgnoreFile: the pattern lines of one ignore file of
\* the root, none when the file cannot be read
loadIgnoreFile(f, filename) ==
    IF ~IsFile(f, filename) THEN <<>>
    ELSE LET raw   == SplitChar(f.files[filename], "\n")
             lines == [i \in 1..Len(raw) |-> Trim(raw[i])]
         IN  SelectSeq(lines, LAMBDA line : line # <<>> /\ Head(line) # "#")

RECURSIVE LoadIgnoreFiles(_, _)
LoadIgnoreFiles(f, names) ==
    IF names = <<>> THEN <<>>
    ELSE loadIgnoreFile(f, Head(names)) \o LoadIgnoreFiles(f, Tail(names))

\* every name (path segment) of the model's file systems
ModelNames ==
    UNION {{SplitChar(p, "/")[k] : k \in 1..Len(SplitChar(p, "/"))} :
             p \in {MixedFiles[i] : i \in 1..Len(MixedFiles)}
                   \cup {WideName(i) : i \in 1..(NumWide + 1)}
                   \cup {GitignorePath, EmptyDirectory, TextFile, BinaryFile, ScratchFile}
                   \cup DOMAIN ProbeTree.files \cup {SourceFile}}

\* new IgnoreHelper(basePath): ignore().add(DEFAULT_IGNORE_PATTERNS).
\* A rule whose first segment matches no name of the model's file
\* systems matches none of their paths and never changes what ignores()
\* answers: only the other rules are kept, in their order.
DefaultRules ==
    SelectSeq(MakeRules(DEFAULT_IGNORE_PATTERNS),
              LAMBDA r : \E name \in ModelNames : GlobSegment(r.segments[1], name))

\* createIgnoreHelper without the early return of initialize: the ignore
\* files are loaded whatever the option says.
createIgnoreHelperLoading(f, includeGitignored) ==
    DefaultRules \o MakeRules(LoadIgnoreFiles(f, IgnoreFileNames))

\* createIgnoreHelper: the rules of the ignore filter
createIgnoreHelper(f, includeGitignored) ==
    IF includeGitignored
    THEN DefaultRules
    ELSE DefaultRules \o MakeRules(LoadIgnoreFiles(f, IgnoreFileNames))

\* path.replace(/\\/g, '/')
NormalizeSeparators(p) == [i \in 1..Len(p) |-> IF p[i] = "\\" THEN "/" ELSE p[i]]

\* IgnoreHelper.shouldIgnore
shouldIgnore(filter, relativePath) ==
    IF relativePath = <<>> THEN FALSE
    ELSE Ignores(filter, NormalizeSeparators(relativePath))

(***************************************************************************)
(* PatternMatcher                                                          *)
(***************************************************************************)
\* new PatternMatcher(includePatterns, excludePatterns); includeIgnore and
\* excludeIgnore are None for null
createPatternMatcher(includePattern, excludePattern) ==
    LET hasInclude == includePattern # None /\ Len(includePattern[1]) > 0
        hasExclude == excludePattern # None /\ Len(excludePattern[1]) > 0
    IN  [includePatterns |-> IF hasInclude THEN includePattern[1] ELSE <<>>,
         excludePatterns |-> IF hasExclude THEN excludePattern[1] ELSE <<>>,
         includeIgnore   |-> IF hasInclude THEN Some(MakeRules(includePattern[1])) ELSE None,
         excludeIgnore   |-> IF hasExclude THEN Some(MakeRules(excludePattern[1])) ELSE None]

\* pattern.split('**')[0]
BeforeGlob(pattern) ==
    LET at == {i \in 1..(Len(pattern) - 1) : pattern[i] = "*" /\ pattern[i + 1] = "*"}
    IN  IF at = {} THEN pattern
        ELSE SubSeq(pattern, 1, (CHOOSE i \in at : \A j \in at : i <= j) - 1)

\* the test of couldContainMatchingFiles for one include pattern
PatternCouldMatchIn(pattern, normalizedDir) ==
    LET cleanPattern == IF StartsWith(pattern, <<".", "/">>)
                        THEN SubSeq(pattern, 3, Len(pattern)) ELSE pattern
        beforeGlob   == BeforeGlob(pattern)
        trimmed      == IF EndsWith(beforeGlob, <<"/">>)
                        THEN SubSeq(beforeGlob, 1, Len(beforeGlob) - 1)
                        ELSE beforeGlob
    IN  \/ StartsWith(cleanPattern, normalizedDir)
        \/ /\ Contains(pattern, <<"*", "*">>)
           /\ (beforeGlob = <<>> \/ StartsWith(normalizedDir, trimmed))
        \/ StartsWith(pattern, <<"*", "*">>)
        \/ StartsWith(pattern, <<"*">>)

\* PatternMatcher.couldContainMatchingFiles
couldContainMatchingFiles(pm, dirPath) ==
    IF pm.includePatterns = <<>> THEN TRUE
    ELSE \E i \in 1..Len(pm.includePatterns) :
             PatternCouldMatchIn(pm.includePatterns[i], NormalizeSeparators(dirPath))

\* PatternMatcher.shouldInclude
shouldInclude(pm, relativePath, isFile) ==
    IF pm.excludeIgnore # None /\ Ignores(pm.excludeIgnore[1], relativePath)
    THEN FALSE
    ELSE IF pm.includeIgnore = None THEN TRUE
    ELSE IF isFile THEN ~Ignores(pm.includeIgnore[1], relativePath)
    ELSE couldContainMatchingFiles(pm, relativePath)

(***************************************************************************)
(* file-analyzer                                                           *)
(***************************************************************************)
\* getFileStats: None when fs.stat fails
getFileStats(f, flt, p) ==
    IF Fails(flt, "stat", p) THEN None
    ELSE IF IsFile(f, p)
         THEN Some([size |-> SizeOf(f, p), isDirectory |-> FALSE, isFile |-> TRUE])
    ELSE IF IsDirectory(f, p)
         THEN Some([size |-> 0, isDirectory |-> TRUE, isFile |-> FALSE])
    ELSE None

\* shouldProcessFile
\* The size test with a strict comparison: a file of exactly maxSize bytes
\* is refused.
shouldProcessFileBelow(size, maxSize) == size < maxSize

shouldProcessFile(size, maxSize) == size <= maxSize

\* detectLanguage: "undefined" when no row of the table matches
RECURSIVE LanguageFrom(_, _, _)
LanguageFrom(table, base, ext) ==
    IF table = <<>> THEN "undefined"
    ELSE LET exts == Head(table).extensions
         IN  IF \E i \in 1..Len(exts) : exts[i] = base \/ exts[i] = ext
             THEN Head(table).language
             ELSE LanguageFrom(Tail(table), base, ext)

detectLanguage(p) ==
    LET ext      == extname(p)
        base     == basename(p)
        language == LanguageFrom(LANGUAGE_EXTENSIONS, base, ext)
    IN  IF language # "undefined" THEN language
        ELSE IF ext = <<>>
             THEN IF Contains(base, <<"d", "o", "c", "k", "e", "r", "f", "i", "l", "e">>) THEN "Dockerfile"
                  ELSE IF Contains(base, <<"m", "a", "k", "e", "f", "i", "l", "e">>) THEN "Makefile"
                  ELSE IF Contains(base, <<"r", "a", "k", "e", "f", "i", "l", "e">>) THEN "Ruby"
                  ELSE IF Contains(base, <<"g", "e", "m", "f", "i", "l", "e">>) THEN "Ruby"
                  ELSE "undefined"
             ELSE "undefined"

Min(a, b) == IF a <= b THEN a ELSE b

\* isBinaryFile with a catch that answers false: a file that cannot be
\* probed is taken for text.
isBinaryFileTrusting(f, flt, p) ==
    IF Fails(flt, "stat", p) \/ Fails(flt, "isBinaryFile.stat", p) THEN FALSE
    ELSE IF ToLower(extname(p)) \in BINARY_EXTENSIONS THEN TRUE
    ELSE IF SizeOf(f, p) = 0 THEN FALSE
    ELSE LET mimeType == MimeLookup(extname(p))
         IN  IF /\ mimeType # None
                /\ ~StartsWith(mimeType[1], <<"t", "e", "x", "t", "/">>)
                /\ ~Contains(mimeType[1], <<"j", "s", "o", "n">>)
                /\ ~Contains(mimeType[1], <<"x", "m", "l">>)
             THEN TRUE
             ELSE IF Fails(flt, "open", p) \/ Fails(flt, "isBinaryFile.read", p) THEN FALSE
             ELSE LET buffer == SubSeq(f.files[p], 1, Min(SizeOf(f, p), CHUNK_SIZE))
                  IN  \E i \in 1..Len(buffer) : buffer[i] = NUL

\* isBinaryFile with the test of the size ahead of the test of the
\* extension: an empty file is never binary.
isBinaryFileSizeFirst(f, flt, p) ==
    IF Fails(flt, "stat", p) \/ Fails(flt, "isBinaryFile.stat", p) THEN TRUE
    ELSE IF SizeOf(f, p) = 0 THEN FALSE
    ELSE IF ToLower(extname(p)) \in BINARY_EXTENSIONS THEN TRUE
    ELSE LET mimeType == MimeLookup(extname(p))
         IN  IF /\ mimeType # None
                /\ ~StartsWith(mimeType[1], <<"t", "e", "x", "t", "/">>)
                /\ ~Contains(mimeType[1], <<"j", "s", "o", "n">>)
                /\ ~Contains(mimeType[1], <<"x", "m", "l">>)
             THEN TRUE
             ELSE IF Fails(flt, "open", p) \/ Fails(flt, "isBinaryFile.read", p) THEN TRUE
             ELSE LET buffer == SubSeq(f.files[p], 1, Min(SizeOf(f, p), CHUNK_SIZE))
                  IN  \E i \in 1..Len(buffer) : buffer[i] = NUL

\* isBinaryFile
isBinaryFile(f, flt, p) ==
    IF Fails(flt, "stat", p) \/ Fails(flt, "isBinaryFile.stat", p) THEN TRUE
    ELSE IF ToLower(extname(p)) \in BINARY_EXTENSIONS THEN TRUE
    ELSE IF SizeOf(f, p) = 0 THEN FALSE
    ELSE LET mimeType == MimeLookup(extname(p))
         IN  IF /\ mimeType # None
                /\ ~StartsWith(mimeType[1], <<"t", "e", "x", "t", "/">>)
                /\ ~Contains(mimeType[1], <<"j", "s", "o", "n">>)
                /\ ~Contains(mimeType[1], <<"x", "m", "l">>)
             THEN TRUE
             ELSE IF Fails(flt, "open", p) \/ Fails(flt, "isBinaryFile.read", p) THEN TRUE
             ELSE LET buffer == SubSeq(f.files[p], 1, Min(SizeOf(f, p), CHUNK_SIZE))
                  IN  \E i \in 1..Len(buffer) : buffer[i] = NUL

\* detectEncoding
detectEncoding(f, flt, p) ==
    IF Fails(flt, "open", p) \/ Fails(flt, "stat", p) THEN "unknown"
    ELSE LET buffer == SubSeq(f.files[p], 1, Min(CHUNK_SIZE, SizeOf(f, p)))
         IN  IF StartsWith(buffer, <<"0xEF", "0xBB", "0xBF">>) THEN "utf-8-bom"
             ELSE IF StartsWith(buffer, <<"0xFF", "0xFE">>) THEN "utf-16le"
             ELSE IF StartsWith(buffer, <<"0xFE", "0xFF">>) THEN "utf-16be"
             ELSE "utf-8"

\* countLines
countLines(content) ==
    IF content = <<>> THEN 0 ELSE Len(SplitChar(content, "\n"))
(***************************************************************************)
(* FileProcessor                                                           *)
(***************************************************************************)
VARIABLES
    fs,              \* the file system that is walked
    fault,           \* the I/O operation that fails during the walks, or None
    cli,             \* the options given on the command line
    order,           \* the enumeration order of fs.readdir for this walk
    run,             \* 1 for the first walk, 2 for the walk that repeats it
    pc,              \* "ready", "walking", "done" or "failed"
    query,           \* this.query.options
    ignoreFilter,    \* this.ignoreHelper: the rules of its filter
    patternMatcher,  \* this.patternMatcher
    stats,           \* this.stats
    stack,           \* the pending calls of processDirectory, root first
    result,          \* what process() returned, Null before and on failure
    warnings,        \* the messages given to displayWarning, in order
    listed,          \* history: the directories handed to fs.readdir
    accepted,        \* history: the files counted in the stats, in visit order
    firstResult,     \* what the first walk returned (Null until the second)
    output,          \* the DigestOutput of generate(), Null before; its stats
                     \* property is the object this.stats
    tiktoken,        \* history: "works" or "throws" in calculateTokens, "unused" before
    source,          \* what main's source argument names: a local path or a URL
    step,            \* the position of main, "none" when process() runs without main
    tempDir,         \* query.tempDir: "none", "exists" or "removed"
    disk,            \* the files of the output directory: path -> content
    stdout,          \* what was written to process.stdout
    ai,              \* the outcome of performAIAnalysis and the aiInsights and
                     \* securityAnalysis properties of the output
    failure,         \* the error that main throws, or None
    notices,         \* the messages of displayInfo and displayWarning in main
    prompted         \* history: the answer to the overwrite prompt

mainVars == <<source, step, tempDir, disk, stdout, ai, failure, notices, prompted>>

vars == <<fs, fault, cli, order, run, pc, query, ignoreFilter, patternMatcher,
          stats, stack, result, warnings, listed, accepted, firstResult, output, tiktoken,
          mainVars>>

\* the constructor's stats
EmptyStats ==
    [totalFiles        |-> 0,
     totalDirectories  |-> 0,
     totalSize         |-> 0,
     textSize          |-> 0,
     binaryFiles       |-> 0,
     languageBreakdown |-> [l \in {} |-> 0],
     largestFiles      |-> <<>>,
     estimatedTokens   |-> 0,
     processingTime    |-> 0]

\* String.prototype.toLowerCase on the language names of the model
toLowerCase(name) ==
    IF name = "TypeScript" THEN "typescript"
    ELSE IF name = "Markdown" THEN "markdown"
    ELSE name

\* the table of addLanguageFilters
languageExtensions ==
    [javascript |-> <<<<"*", "*", "/", "*", ".", "j", "s">>, <<"*", "*", "/", "*", ".", "j", "s", "x">>, <<"*", "*", "/", "*", ".", "m", "j", "s">>, <<"*", "*", "/", "*", ".", "c", "j", "s">>>>,
     typescript |-> <<<<"*", "*", "/", "*", ".", "t", "s">>, <<"*", "*", "/", "*", ".", "t", "s", "x">>, <<"*", "*", "/", "*", ".", "d", ".", "t", "s">>>>,
     python     |-> <<<<"*", "*", "/", "*", ".", "p", "y">>, <<"*", "*", "/", "*", ".", "p", "y", "w">>, <<"*", "*", "/", "*", ".", "p", "y", "x">>>>,
     java       |-> <<<<"*", "*", "/", "*", ".", "j", "a", "v", "a">>>>,
     cpp        |-> <<<<"*", "*", "/", "*", ".", "c", "p", "p">>, <<"*", "*", "/", "*", ".", "c", "x", "x">>, <<"*", "*", "/", "*", ".", "c", "c">>, <<"*", "*", "/", "*", ".", "h", "p", "p">>, <<"*", "*", "/", "*", ".", "h", "x", "x">>>>,
     c          |-> <<<<"*", "*", "/", "*", ".", "c">>, <<"*", "*", "/", "*", ".", "h">>>>,
     csharp     |-> <<<<"*", "*", "/", "*", ".", "c", "s">>>>,
     go         |-> <<<<"*", "*", "/", "*", ".", "g", "o">>>>,
     rust       |-> <<<<"*", "*", "/", "*", ".", "r", "s">>>>,
     php        |-> <<<<"*", "*", "/", "*", ".", "p", "h", "p">>>>,
     ruby       |-> <<<<"*", "*", "/", "*", ".", "r", "b">>>>,
     swift      |-> <<<<"*", "*", "/", "*", ".", "s", "w", "i", "f", "t">>>>,
     kotlin     |-> <<<<"*", "*", "/", "*", ".", "k", "t">>>>,
     scala      |-> <<<<"*", "*", "/", "*", ".", "s", "c", "a", "l", "a">>>>,
     html       |-> <<<<"*", "*", "/", "*", ".", "h", "t", "m", "l">>, <<"*", "*", "/", "*", ".", "h", "t", "m">>>>,
     css        |-> <<<<"*", "*", "/", "*", ".", "c", "s", "s">>, <<"*", "*", "/", "*", ".", "s", "c", "s", "s">>, <<"*", "*", "/", "*", ".", "s", "a", "s", "s">>, <<"*", "*", "/", "*", ".", "l", "e", "s", "s">>>>,
     sql        |-> <<<<"*", "*", "/", "*", ".", "s", "q", "l">>>>,
     shell      |-> <<<<"*", "*", "/", "*", ".", "s", "h">>, <<"*", "*", "/", "*", ".", "b", "a", "s", "h">>, <<"*", "*", "/", "*", ".", "z", "s", "h">>>>,
     markdown   |-> <<<<"*", "*", "/", "*", ".", "m", "d">>, <<"*", "*", "/", "*", ".", "m", "a", "r", "k", "d", "o", "w", "n">>>>,
     json       |-> <<<<"*", "*", "/", "*", ".", "j", "s", "o", "n">>>>,
     yaml       |-> <<<<"*", "*", "/", "*", ".", "y", "m", "l">>, <<"*", "*", "/", "*", ".", "y", "a", "m", "l">>>>,
     xml        |-> <<<<"*", "*", "/", "*", ".", "x", "m", "l">>>>]

RECURSIVE LanguagePatterns(_)
LanguagePatterns(languages) ==
    IF languages = <<>> THEN <<>>
    ELSE LET lang == toLowerCase(Head(languages))
         IN  (IF lang \in DOMAIN languageExtensions
              THEN languageExtensions[lang] ELSE <<>>)
             \o LanguagePatterns(Tail(languages))

\* addLanguageFilters that puts the globs of the languages in the place
\* of the include patterns of the user
addLanguageFiltersReplacing(options, languages) ==
    LET patterns == LanguagePatterns(languages)
    IN  IF patterns # <<>>
        THEN [options EXCEPT !.includePattern = Some(patterns)]
        ELSE options

\* addLanguageFilters: the options after it ran (the pattern matcher is
\* rebuilt from them)
addLanguageFilters(options, languages) ==
    LET patterns == LanguagePatterns(languages)
        existing == IF options.includePattern # None
                    THEN options.includePattern[1] ELSE <<>>
    IN  IF patterns # <<>>
        THEN [options EXCEPT !.includePattern = Some(existing \o patterns)]
        ELSE options

\* The children as they were pushed, the sort left out.
UnsortedChildren(children) == children

\* children.sort(...): directories first, then by name.  Array.sort is
\* stable: an element goes behind the elements it does not precede.
CompareNodes(a, b) ==
    IF a.type # b.type
    THEN (IF a.type = "directory" THEN -1 ELSE 1)
    ELSE localeCompare(a.name, b.name)

RECURSIVE InsertNode(_, _)
InsertNode(sorted, n) ==
    IF sorted = <<>> THEN <<n>>
    ELSE IF CompareNodes(Head(sorted), n) > 0 THEN <<n>> \o sorted
    ELSE <<Head(sorted)>> \o InsertNode(Tail(sorted), n)

RECURSIVE SortChildren(_)
SortChildren(children) ==
    IF children = <<>> THEN <<>>
    ELSE InsertNode(SortChildren(SubSeq(children, 1, Len(children) - 1)),
                    children[Len(children)])

\* largestFiles.sort((a, b) => b.size - a.size), stable
RECURSIVE InsertLargest(_, _)
InsertLargest(sorted, e) ==
    IF sorted = <<>> THEN <<e>>
    ELSE IF Head(sorted).size - e.size < 0 THEN <<e>> \o sorted
    ELSE <<Head(sorted)>> \o InsertLargest(Tail(sorted), e)

RECURSIVE SortLargest(_)
SortLargest(list) ==
    IF list = <<>> THEN <<>>
    ELSE InsertLargest(SortLargest(SubSeq(list, 1, Len(list) - 1)), list[Len(list)])

\* The tracking of the largest files with the sort before the slice left
\* out: the entry pushed last is the one that is dropped.
TrackWithoutSort(largestFiles, entry) ==
    LET pushed == Append(largestFiles, entry)
    IN  IF Len(pushed) > LARGEST_FILES_LIMIT
        THEN SubSeq(pushed, 1, LARGEST_FILES_LIMIT)
        ELSE pushed

\* "Track largest files" of processFile
TrackLargest(largestFiles, entry) ==
    LET pushed == Append(largestFiles, entry)
    IN  IF Len(pushed) > LARGEST_FILES_LIMIT
        THEN SubSeq(SortLargest(pushed), 1, LARGEST_FILES_LIMIT)
        ELSE pushed

\* The reduce with the directory children left out of the sum.
RECURSIVE SumFileSizes(_)
SumFileSizes(children) ==
    IF children = <<>> THEN 0
    ELSE (IF Head(children).type = "file" THEN Head(children).size ELSE 0)
         + SumFileSizes(Tail(children))

\* children.reduce((sum, child) => sum + child.size, 0)
RECURSIVE SumSizes(_)
SumSizes(children) ==
    IF children = <<>> THEN 0 ELSE Head(children).size + SumSizes(Tail(children))

\* path.basename(fullPath) for the relative path of a node
NodeName(relativePath) ==
    IF relativePath = <<>> THEN RepoName ELSE basename(relativePath)

\* The histogram without the "if (language)" test: a file without a
\* language is counted under undefined.
CountEveryLanguage(breakdown, language) ==
    IF language \in DOMAIN breakdown
    THEN [breakdown EXCEPT ![language] = @ + 1]
    ELSE breakdown @@ (language :> 1)

\* languageBreakdown[language] = (languageBreakdown[language] || 0) + 1
CountLanguage(breakdown, language) ==
    IF language = "undefined" THEN breakdown
    ELSE IF language \in DOMAIN breakdown
         THEN [breakdown EXCEPT ![language] = @ + 1]
         ELSE breakdown @@ (language :> 1)

\* The catch of processFile with the text size added before the read:
\* a file that could not be read is counted as text.
unreadableFileAsText(base, counted, relativePath) ==
    [node     |-> base @@ [content |-> <<"[", "u", "n", "r", "e", "a", "d", "a", "b", "l", "e", "]">>],
     stats    |-> [counted EXCEPT !.textSize = @ + base.size],
     warnings |-> <<[kind |-> "unreadable file", path |-> relativePath]>>,
     counted  |-> TRUE]

\* the catch of processFile: fs.readFile (or what follows it) has thrown
unreadableFile(base, counted, relativePath) ==
    [node     |-> base @@ [content |-> <<"[", "u", "n", "r", "e", "a", "d", "a", "b", "l", "e", "]">>],
     stats    |-> counted,
     warnings |-> <<[kind |-> "unreadable file", path |-> relativePath]>>,
     counted  |-> TRUE]

\* FileProcessor.processFile: the node it returns (Null when the file is
\* left out), the stats after it and the warnings it displayed
processFile(f, flt, filter, pm, st, relativePath, maxSize) ==
    LET fileStats == getFileStats(f, flt, relativePath)
        skipped   == [node |-> Null, stats |-> st, warnings |-> <<>>, counted |-> FALSE]
    IN  IF shouldIgnore(filter, relativePath) THEN skipped
        ELSE IF ~shouldInclude(pm, relativePath, TRUE) THEN skipped
        ELSE IF fileStats = None \/ ~fileStats[1].isFile THEN skipped
        ELSE IF ~shouldProcessFile(fileStats[1].size, maxSize)
             THEN [skipped EXCEPT
                     !.warnings = <<[kind |-> "large file", path |-> relativePath]>>]
        ELSE
          LET size     == fileStats[1].size
              language == detectLanguage(relativePath)
              counted  == [st EXCEPT
                             !.totalFiles = @ + 1,
                             !.totalSize = @ + size,
                             !.largestFiles =
                                 TrackLargest(@, [path |-> relativePath, size |-> size]),
                             !.languageBreakdown = CountLanguage(@, language)]
              base     == [name     |-> NodeName(relativePath),
                           path     |-> relativePath,
                           type     |-> "file",
                           size     |-> size,
                           language |-> language]
          IN  IF isBinaryFile(f, flt, relativePath)
              THEN [node     |-> base @@ [content |-> <<"[", "b", "i", "n", "a", "r", "y", "]">>],
                    stats    |-> [counted EXCEPT !.binaryFiles = @ + 1],
                    warnings |-> <<>>,
                    counted  |-> TRUE]
              ELSE IF Fails(flt, "readFile", relativePath)
              THEN unreadableFile(base, counted, relativePath)
              ELSE [node     |-> base @@
                                 [content   |-> f.files[relativePath],
                                  encoding  |-> detectEncoding(f, flt, relativePath),
                                  lineCount |-> countLines(f.files[relativePath])],
                    stats    |-> [counted EXCEPT !.textSize = @ + size],
                    warnings |-> <<>>,
                    counted  |-> TRUE]

\* The beginning of processDirectory with the depth check one level early
\* (currentDepth >= maxDepth).
enterDirectoryEarly(f, flt, filter, pm, relativePath, maxDepth, currentDepth) ==
    LET dirStats == getFileStats(f, flt, relativePath)
    IN  IF maxDepth # None /\ currentDepth >= maxDepth[1] THEN "rejected"
        ELSE IF relativePath # <<>> /\ shouldIgnore(filter, relativePath) THEN "rejected"
        ELSE IF relativePath # <<>> /\ ~shouldInclude(pm, relativePath, FALSE) THEN "rejected"
        ELSE IF dirStats = None \/ ~dirStats[1].isDirectory THEN "rejected"
        ELSE IF Fails(flt, "readdir", relativePath) THEN "unreadable"
        ELSE "entered"

\* The beginning of FileProcessor.processDirectory, up to fs.readdir:
\*   "rejected"   : null is returned before the directory is counted
\*   "unreadable" : the directory is counted, fs.readdir throws
\*   "entered"    : the directory is counted and its entries are listed
enterDirectory(f, flt, filter, pm, relativePath, maxDepth, currentDepth) ==
    LET dirStats == getFileStats(f, flt, relativePath)
    IN  IF maxDepth # None /\ currentDepth > maxDepth[1] THEN "rejected"
        ELSE IF relativePath # <<>> /\ shouldIgnore(filter, relativePath) THEN "rejected"
        ELSE IF relativePath # <<>> /\ ~shouldInclude(pm, relativePath, FALSE) THEN "rejected"
        ELSE IF dirStats = None \/ ~dirStats[1].isDirectory THEN "rejected"
        ELSE IF Fails(flt, "readdir", relativePath) THEN "unreadable"
        ELSE "entered"

\* The end of processDirectory with the "children.length === 0" return
\* left out: a directory without children is a node as well.
directoryNodeAlways(relativePath, children) ==
    LET sorted == SortChildren(children)
    IN  [name     |-> NodeName(relativePath),
         path     |-> relativePath,
         type     |-> "directory",
         children |-> sorted,
         size     |-> SumSizes(sorted)]

\* the end of FileProcessor.processDirectory: the node of a directory
\* whose entries have all been handled, Null when no child is left
directoryNode(relativePath, children) ==
    LET sorted == SortChildren(children)
    IN  IF Len(sorted) = 0 THEN Null
        ELSE [name     |-> NodeName(relativePath),
              path     |-> relativePath,
              type     |-> "directory",
              children |-> sorted,
              size     |-> SumSizes(sorted)]

Frame(f, ord, relativePath, currentDepth) ==
    [relativePath |-> relativePath,
     currentDepth |-> currentDepth,
     entries      |-> Enumerate(EntryNames(f, relativePath), ord),
     children     |-> <<>>]

Top == stack[Len(stack)]
EntryPath(frame) ==
    IF frame.relativePath # <<>>
    THEN JoinPath(frame.relativePath, Head(frame.entries))
    ELSE Head(frame.entries)

\* the stack with the first entry of the top frame consumed and, when it
\* produced a node, that node pushed on the children of the frame
Consumed(node) ==
    [stack EXCEPT ![Len(stack)] =
        [@ EXCEPT !.entries = Tail(@),
                  !.children = IF node = Null THEN @ ELSE Append(@, node)]]

(***************************************************************************)
(* OutputGenerator: the rendering of the digest.  The content is a         *)
(* sequence of characters like every string of the model.                  *)
(***************************************************************************)
\* query.source of a local source: path.resolve of the argument
Source == <<"/">> \o RepoName

\* new Date().toISOString(): the clock of the model stands still
Timestamp == <<"2", "0", "2", "6", "-", "0", "1", "-", "0", "1", "T", "0", "0", ":", "0", "0", ":", "0", "0", ".", "0", "0", "0", "Z">>

\* stats.mtime of every file and directory of the model, as JSON.stringify
\* writes a Date
LastModified == <<"2", "0", "2", "5", "-", "1", "2", "-", "3", "1", "T", "0", "0", ":", "0", "0", ":", "0", "0", ".", "0", "0", "0", "Z">>

OUTPUT_TEMPLATES ==
    [SEPARATOR         |-> [i \in 1..80 |-> "="],
     FILE_SEPARATOR    |-> [i \in 1..40 |-> "-"],
     SECTION_SEPARATOR |-> [i \in 1..60 |-> "~"]]

\* the box-drawing characters of the tree: one character each
BoxVertical == "U+2502"
BoxUpRight == "U+2514"
BoxVerticalRight == "U+251C"
BoxHorizontal == "U+2500"
\* the grave accent of the code fences
Backtick == "U+0060"

\* the characters of the names that detectLanguage and detectEncoding give
NameChars ==
    [JavaScript |-> <<"J", "a", "v", "a", "S", "c", "r", "i", "p", "t">>, TypeScript |-> <<"T", "y", "p", "e", "S", "c", "r", "i", "p", "t">>,
     Python |-> <<"P", "y", "t", "h", "o", "n">>,
     Markdown |-> <<"M", "a", "r", "k", "d", "o", "w", "n">>, JSON |-> <<"J", "S", "O", "N">>, Dockerfile |-> <<"D", "o", "c", "k", "e", "r", "f", "i", "l", "e">>,
     Makefile |-> <<"M", "a", "k", "e", "f", "i", "l", "e">>, Ruby |-> <<"R", "u", "b", "y">>]

EncodingChars(encoding) ==
    IF encoding = "utf-8" THEN <<"u", "t", "f", "-", "8">>
    ELSE IF encoding = "utf-8-bom" THEN <<"u", "t", "f", "-", "8", "-", "b", "o", "m">>
    ELSE IF encoding = "utf-16le" THEN <<"u", "t", "f", "-", "1", "6", "l", "e">>
    ELSE IF encoding = "utf-16be" THEN <<"u", "t", "f", "-", "1", "6", "b", "e">>
    ELSE <<"u", "n", "k", "n", "o", "w", "n">>

\* Array.prototype.join
RECURSIVE join(_, _)
join(parts, separator) ==
    IF Len(parts) = 0 THEN <<>>
    ELSE IF Len(parts) = 1 THEN parts[1]
    ELSE parts[1] \o separator \o join(Tail(parts), separator)

\* Number.prototype.toLocaleString in the en-US locale
RECURSIVE toLocaleString(_)
toLocaleString(n) ==
    IF n < 1000 THEN ToDigits(n)
    ELSE toLocaleString(n \div 1000) \o
         <<",", Digits[((n % 1000) \div 100) + 1], Digits[((n % 100) \div 10) + 1],
           Digits[(n % 10) + 1]>>

\* (n / d).toFixed(2): the quotient rounded to hundredths
toFixed(n, d) ==
    LET hundredths == (200 * n + d) \div (2 * d)
    IN  ToDigits(hundredths \div 100) \o
        <<".", Digits[((hundredths % 100) \div 10) + 1], Digits[(hundredths % 10) + 1]>>

\* parseFloat(text).toString(): the trailing zeros of the fraction go
RECURSIVE parseFloat(_)
parseFloat(text) ==
    IF text[Len(text)] = "0" THEN parseFloat(SubSeq(text, 1, Len(text) - 1))
    ELSE IF text[Len(text)] = "." THEN SubSeq(text, 1, Len(text) - 1)
    ELSE text

\* Math.floor(Math.log(bytes) / Math.log(1024))
RECURSIVE FloorLog1024(_)
FloorLog1024(bytes) == IF bytes < 1024 THEN 0 ELSE 1 + FloorLog1024(bytes \div 1024)

RECURSIVE Pow1024(_)
Pow1024(i) == IF i = 0 THEN 1 ELSE 1024 * Pow1024(i - 1)

formatBytes(bytes) ==
    IF bytes = 0 THEN <<"0", " ", "B">>
    ELSE LET k     == 1024
             sizes == <<<<"B">>, <<"K", "B">>, <<"M", "B">>, <<"G", "B">>>>
             i     == FloorLog1024(bytes)
         IN  parseFloat(toFixed(bytes, Pow1024(i))) \o <<" ">> \o
             (IF i < Len(sizes) THEN sizes[i + 1] ELSE <<"u", "n", "d", "e", "f", "i", "n", "e", "d">>)

formatTime(ms) ==
    IF ms < 1000 THEN ToDigits(ms) \o <<"m", "s">>
    ELSE toFixed(ms, 1000) \o <<"s">>

\* Object.entries(stats.languageBreakdown): the keys in the order of their
\* first assignment, which is the order in which processFile met them in
\* the files it counted (visits)
RECURSIVE KeysOf(_, _)
KeysOf(breakdown, visits) ==
    IF Len(visits) = 0 THEN <<>>
    ELSE LET before   == KeysOf(breakdown, SubSeq(visits, 1, Len(visits) - 1))
             language == detectLanguage(visits[Len(visits)].path)
         IN  IF language \notin DOMAIN breakdown
                \/ \E i \in 1..Len(before) : before[i] = language
             THEN before
             ELSE Append(before, language)

\* .sort(([,a], [,b]) => b - a): the larger count first, equal counts in
\* the order they had
RECURSIVE SortByCount(_, _)
SortByCount(breakdown, keys) ==
    IF Len(keys) = 0 THEN <<>>
    ELSE LET front == SortByCount(breakdown, SubSeq(keys, 1, Len(keys) - 1))
             key   == keys[Len(keys)]
             ahead == SelectSeq(front, LAMBDA other : breakdown[other] >= breakdown[key])
             after == SelectSeq(front, LAMBDA other : breakdown[other] < breakdown[key])
         IN  ahead \o <<key>> \o after

slice(items, count) == SubSeq(items, 1, Min(count, Len(items)))

generateHeader ==
    join(<<<<"R", "e", "p", "o", "s", "i", "t", "o", "r", "y", " ", "D", "i", "g", "e", "s", "t", ":", " ">> \o basename(Source),
           OUTPUT_TEMPLATES.SEPARATOR,
           <<"T", "h", "i", "s", " ", "d", "i", "g", "e", "s", "t", " ", "c", "o", "n", "t", "a", "i", "n", "s", " ", "a", " ", "c", "o", "m", "p", "r", "e", "h", "e", "n", "s", "i", "v", "e", " ", "a", "n", "a", "l", "y", "s", "i", "s", " ", "o", "f", " ", "t", "h", "e", " ", "r", "e", "p", "o", "s", "i", "t", "o", "r", "y", " ", "s", "t", "r", "u", "c", "t", "u", "r", "e", " ", "a", "n", "d", " ", "c", "o", "n", "t", "e", "n", "t", "s", ".">>,
           <<"G", "e", "n", "e", "r", "a", "t", "e", "d", " ", "b", "y", " ", "R", "e", "p", "o", "D", "i", "g", "e", "s", "t", " ", "-", " ", "A", "d", "v", "a", "n", "c", "e", "d", " ", "c", "o", "d", "e", "b", "a", "s", "e", " ", "a", "n", "a", "l", "y", "s", "i", "s", " ", "t", "o", "o", "l", " ", "f", "o", "r", " ", "L", "L", "M", "s", ".">>,
           <<>> >>, <<"\n">>)

generateSummary(st, keys) ==
    LET languages == slice(SortByCount(st.languageBreakdown, keys), 10)
        lines ==
          <<<<"S", "U", "M", "M", "A", "R", "Y">>,
            OUTPUT_TEMPLATES.SECTION_SEPARATOR,
            <<"R", "e", "p", "o", "s", "i", "t", "o", "r", "y", ":", " ">> \o basename(Source),
            <<"S", "o", "u", "r", "c", "e", ":", " ">> \o Source,
            <<"F", "i", "l", "e", "s", " ", "A", "n", "a", "l", "y", "z", "e", "d", ":", " ">> \o toLocaleString(st.totalFiles),
            <<"D", "i", "r", "e", "c", "t", "o", "r", "i", "e", "s", ":", " ">> \o toLocaleString(st.totalDirectories),
            <<"T", "o", "t", "a", "l", " ", "S", "i", "z", "e", ":", " ">> \o formatBytes(st.totalSize),
            <<"T", "e", "x", "t", " ", "C", "o", "n", "t", "e", "n", "t", ":", " ">> \o formatBytes(st.textSize),
            <<"B", "i", "n", "a", "r", "y", " ", "F", "i", "l", "e", "s", ":", " ">> \o toLocaleString(st.binaryFiles),
            <<"P", "r", "o", "c", "e", "s", "s", "i", "n", "g", " ", "T", "i", "m", "e", ":", " ">> \o formatTime(st.processingTime),
            <<"E", "s", "t", "i", "m", "a", "t", "e", "d", " ", "T", "o", "k", "e", "n", "s", ":", " ", "~">> \o toLocaleString(st.estimatedTokens)>>
    IN  join(lines \o
             (IF Len(keys) > 0
              THEN <<<<>>, <<"L", "a", "n", "g", "u", "a", "g", "e", " ", "B", "r", "e", "a", "k", "d", "o", "w", "n", ":">>>> \o
                   [i \in 1..Len(languages) |->
                      <<" ", " ">> \o NameChars[languages[i]] \o <<":", " ">> \o
                      ToDigits(st.languageBreakdown[languages[i]]) \o <<" ", "f", "i", "l", "e", "s">>]
              ELSE <<>>), <<"\n">>)

\* a file whose content goes into the digest
HasContent(node) ==
    /\ node.type = "file"
    /\ Len(node.content) > 0
    /\ node.content \notin {<<"[", "b", "i", "n", "a", "r", "y", "]">>, <<"[", "u", "n", "r", "e", "a", "d", "a", "b", "l", "e", "]">>}

RECURSIVE generateTreeString(_, _)
RECURSIVE TreeStringOfChildren(_, _, _)
generateTreeString(node, prefix) ==
    LET suffix ==
          IF node.type = "directory" THEN <<"/">>
          ELSE IF node.content = <<"[", "b", "i", "n", "a", "r", "y", "]">> THEN <<" ", "[", "b", "i", "n", "a", "r", "y", "]">>
          ELSE IF node.content = <<"[", "u", "n", "r", "e", "a", "d", "a", "b", "l", "e", "]">> THEN <<" ", "[", "u", "n", "r", "e", "a", "d", "a", "b", "l", "e", "]">>
          ELSE IF node.language # "undefined" THEN <<" ", "[">> \o NameChars[node.language] \o <<"]">>
          ELSE <<>>
        connector ==
          SubSeq(prefix, 1, Len(prefix) - 4) \o
          (IF EndsWith(prefix, <<" ", " ", " ", " ">>)
           THEN <<BoxUpRight, BoxHorizontal, BoxHorizontal, " ">>
           ELSE <<BoxVerticalRight, BoxHorizontal, BoxHorizontal, " ">>)
        line ==
          IF Len(prefix) = 0
          THEN node.name \o (IF node.type = "directory" THEN <<"/">> ELSE <<>>) \o <<"\n">>
          ELSE connector \o node.name \o suffix \o <<"\n">>
    IN  IF node.type = "directory"
        THEN line \o TreeStringOfChildren(node.children, prefix, 1)
        ELSE line

\* node.children.forEach of generateTreeString, from the index-th child on
TreeStringOfChildren(children, prefix, index) ==
    IF index > Len(children) THEN <<>>
    ELSE LET isLast    == index = Len(children)
             newPrefix == prefix \o (IF isLast THEN <<" ", " ", " ", " ">>
                                     ELSE <<BoxVertical, " ", " ", " ">>)
         IN  generateTreeString(children[index], newPrefix) \o
             TreeStringOfChildren(children, prefix, index + 1)

generateDirectoryTree(rootNode) ==
    join(<<<<"D", "I", "R", "E", "C", "T", "O", "R", "Y", " ", "S", "T", "R", "U", "C", "T", "U", "R", "E">>,
           OUTPUT_TEMPLATES.SECTION_SEPARATOR,
           generateTreeString(rootNode, <<>>)>>, <<"\n">>)

\* the lines that addFileContents pushes for the node
RECURSIVE addFileContents(_)
addFileContents(node) ==
    IF HasContent(node)
    THEN <<<<>>,
           OUTPUT_TEMPLATES.FILE_SEPARATOR,
           <<"F", "I", "L", "E", ":", " ">> \o node.path>> \o
         (IF node.language # "undefined"
          THEN <<<<"L", "A", "N", "G", "U", "A", "G", "E", ":", " ">> \o NameChars[node.language]>> ELSE <<>>) \o
         (IF node.lineCount # 0
          THEN <<<<"L", "I", "N", "E", "S", ":", " ">> \o ToDigits(node.lineCount)>> ELSE <<>>) \o
         <<OUTPUT_TEMPLATES.FILE_SEPARATOR,
           node.content>>
    ELSE IF node.type = "directory"
    THEN LET lines[i \in 0..Len(node.children)] ==
               IF i = 0 THEN <<>>
               ELSE lines[i - 1] \o addFileContents(node.children[i])
         IN  lines[Len(node.children)]
    ELSE <<>>

generateFileContents(rootNode) ==
    join(<<<<"F", "I", "L", "E", " ", "C", "O", "N", "T", "E", "N", "T", "S">>, OUTPUT_TEMPLATES.SECTION_SEPARATOR>> \o
         addFileContents(rootNode), <<"\n">>)

\* generateTextOutput of an output that carries no AI insights
generateTextOutput(rootNode, st, keys) ==
    join(<<generateHeader,
           generateSummary(st, keys),
           generateDirectoryTree(rootNode),
           generateFileContents(rootNode)>>, <<"\n", "\n">>)

getMarkdownLanguage(language) ==
    IF language = "undefined" THEN <<>>
    ELSE LET mappings == [JavaScript |-> <<"j", "a", "v", "a", "s", "c", "r", "i", "p", "t">>, TypeScript |-> <<"t", "y", "p", "e", "s", "c", "r", "i", "p", "t">>,
                          Python |-> <<"p", "y", "t", "h", "o", "n">>,
                          Markdown |-> <<"m", "a", "r", "k", "d", "o", "w", "n">>, JSON |-> <<"j", "s", "o", "n">>]
         IN  IF language \in DOMAIN mappings THEN mappings[language]
             ELSE IF language = "Dockerfile" THEN <<"d", "o", "c", "k", "e", "r", "f", "i", "l", "e">>
             ELSE IF language = "Makefile" THEN <<"m", "a", "k", "e", "f", "i", "l", "e">>
             ELSE <<"r", "u", "b", "y">>

\* the sections that addFileContentsMarkdown pushes for the node
RECURSIVE addFileContentsMarkdown(_)
addFileContentsMarkdown(node) ==
    IF HasContent(node)
    THEN <<<<"#", "#", "#", " ">> \o node.path>> \o
         (IF node.language # "undefined"
          THEN <<<<"*", "*", "L", "a", "n", "g", "u", "a", "g", "e", "*", "*", ":", " ">> \o NameChars[node.language] \o <<" ", " ">>>> ELSE <<>>) \o
         (IF node.lineCount # 0
          THEN <<<<"*", "*", "L", "i", "n", "e", "s", "*", "*", ":", " ">> \o ToDigits(node.lineCount) \o <<" ", " ">>>> ELSE <<>>) \o
         <<<<>>,
           <<Backtick, Backtick, Backtick>> \o getMarkdownLanguage(node.language),
           node.content,
           <<Backtick, Backtick, Backtick>>,
           <<>> >>
    ELSE IF node.type = "directory"
    THEN LET sections[i \in 0..Len(node.children)] ==
               IF i = 0 THEN <<>>
               ELSE sections[i - 1] \o addFileContentsMarkdown(node.children[i])
         IN  sections[Len(node.children)]
    ELSE <<>>

\* generateMarkdownOutput of an output that carries no AI insights
generateMarkdownOutput(rootNode, st, keys) ==
    LET languages == SortByCount(st.languageBreakdown, keys)
    IN  join(<<<<"#", " ", "R", "e", "p", "o", "s", "i", "t", "o", "r", "y", " ", "D", "i", "g", "e", "s", "t", ":", " ">> \o basename(Source),
               <<>>,
               <<"#", "#", " ", "M", "e", "t", "a", "d", "a", "t", "a">>,
               <<"-", " ", "*", "*", "S", "o", "u", "r", "c", "e", "*", "*", ":", " ">> \o Source,
               <<"-", " ", "*", "*", "G", "e", "n", "e", "r", "a", "t", "e", "d", "*", "*", ":", " ">> \o Timestamp,
               <<>>,
               <<"#", "#", " ", "S", "t", "a", "t", "i", "s", "t", "i", "c", "s">>,
               <<"-", " ", "*", "*", "F", "i", "l", "e", "s", "*", "*", ":", " ">> \o toLocaleString(st.totalFiles),
               <<"-", " ", "*", "*", "D", "i", "r", "e", "c", "t", "o", "r", "i", "e", "s", "*", "*", ":", " ">> \o toLocaleString(st.totalDirectories),
               <<"-", " ", "*", "*", "T", "o", "t", "a", "l", " ", "S", "i", "z", "e", "*", "*", ":", " ">> \o formatBytes(st.totalSize),
               <<"-", " ", "*", "*", "T", "e", "x", "t", " ", "S", "i", "z", "e", "*", "*", ":", " ">> \o formatBytes(st.textSize),
               <<"-", " ", "*", "*", "B", "i", "n", "a", "r", "y", " ", "F", "i", "l", "e", "s", "*", "*", ":", " ">> \o toLocaleString(st.binaryFiles),
               <<"-", " ", "*", "*", "E", "s", "t", "i", "m", "a", "t", "e", "d", " ", "T", "o", "k", "e", "n", "s", "*", "*", ":", " ">> \o toLocaleString(st.estimatedTokens),
               <<>> >> \o
             (IF Len(keys) > 0
              THEN <<<<"#", "#", " ", "L", "a", "n", "g", "u", "a", "g", "e", " ", "B", "r", "e", "a", "k", "d", "o", "w", "n">>>> \o
                   [i \in 1..Len(languages) |->
                      <<"-", " ", "*", "*">> \o NameChars[languages[i]] \o <<"*", "*", ":", " ">> \o
                      ToDigits(st.languageBreakdown[languages[i]]) \o <<" ", "f", "i", "l", "e", "s">>] \o
                   <<<<>>>>
              ELSE <<>>) \o
             <<<<"#", "#", " ", "D", "i", "r", "e", "c", "t", "o", "r", "y", " ", "S", "t", "r", "u", "c", "t", "u", "r", "e">>,
               <<Backtick, Backtick, Backtick>>,
               generateTreeString(rootNode, <<>>),
               <<Backtick, Backtick, Backtick>>,
               <<>>,
               <<"#", "#", " ", "F", "i", "l", "e", " ", "C", "o", "n", "t", "e", "n", "t", "s">>>> \o
             addFileContentsMarkdown(rootNode), <<"\n">>)

(***************************************************************************)
(* JSON.stringify(value, null, 2).  A value is a record [t, v]: a number,  *)
(* a string, an array of values or an object, which is a sequence of       *)
(* <<key, value>> in the order of the properties; a property that is       *)
(* undefined is left out when the object is built.                         *)
(***************************************************************************)
JsonNumber(n) == [t |-> "number", v |-> n]
JsonString(s) == [t |-> "string", v |-> s]
JsonArray(values) == [t |-> "array", v |-> values]
JsonObject(members) == [t |-> "object", v |-> members]

\* the quoted form of a string: quotes, backslashes and control characters
\* are escaped
quote(s) ==
    LET escaped[i \in 0..Len(s)] ==
          IF i = 0 THEN <<>>
          ELSE escaped[i - 1] \o
               (IF s[i] = "\"" THEN <<"\\", "\"">>
                ELSE IF s[i] = "\\" THEN <<"\\", "\\">>
                ELSE IF s[i] = "\n" THEN <<"\\", "n">>
                ELSE IF s[i] = NUL THEN <<"\\", "u", "0", "0", "0", "0">>
                ELSE <<s[i]>>)
    IN  <<"\"">> \o escaped[Len(s)] \o <<"\"">>

Spaces(n) == [i \in 1..n |-> " "]

RECURSIVE stringify(_, _)
stringify(value, indent) ==
    IF value.t = "number" THEN ToDigits(value.v)
    ELSE IF value.t = "string" THEN quote(value.v)
    ELSE IF Len(value.v) = 0
    THEN IF value.t = "array" THEN <<"[", "]">> ELSE <<"{", "}">>
    ELSE IF value.t = "array"
    THEN <<"[", "\n">> \o
         join([i \in 1..Len(value.v) |->
                 Spaces(indent + 2) \o stringify(value.v[i], indent + 2)], <<",", "\n">>) \o
         <<"\n">> \o Spaces(indent) \o <<"]">>
    ELSE <<"{", "\n">> \o
         join([i \in 1..Len(value.v) |->
                 Spaces(indent + 2) \o quote(value.v[i][1]) \o <<":", " ">> \o
                 stringify(value.v[i][2], indent + 2)], <<",", "\n">>) \o
         <<"\n">> \o Spaces(indent) \o <<"}">>

\* the stats object, its properties in the order of the constructor and
\* those of languageBreakdown in the order of their first assignment
StatsToJson(st, keys) ==
    JsonObject(<<
        <<<<"t", "o", "t", "a", "l", "F", "i", "l", "e", "s">>, JsonNumber(st.totalFiles)>>,
        <<<<"t", "o", "t", "a", "l", "D", "i", "r", "e", "c", "t", "o", "r", "i", "e", "s">>, JsonNumber(st.totalDirectories)>>,
        <<<<"t", "o", "t", "a", "l", "S", "i", "z", "e">>, JsonNumber(st.totalSize)>>,
        <<<<"t", "e", "x", "t", "S", "i", "z", "e">>, JsonNumber(st.textSize)>>,
        <<<<"b", "i", "n", "a", "r", "y", "F", "i", "l", "e", "s">>, JsonNumber(st.binaryFiles)>>,
        <<<<"l", "a", "n", "g", "u", "a", "g", "e", "B", "r", "e", "a", "k", "d", "o", "w", "n">>,
          JsonObject([i \in 1..Len(keys) |->
                        <<NameChars[keys[i]], JsonNumber(st.languageBreakdown[keys[i]])>>])>>,
        <<<<"l", "a", "r", "g", "e", "s", "t", "F", "i", "l", "e", "s">>,
          JsonArray([i \in 1..Len(st.largestFiles) |->
                       JsonObject(<< <<<<"p", "a", "t", "h">>, JsonString(st.largestFiles[i].path)>>,
                                     <<<<"s", "i", "z", "e">>, JsonNumber(st.largestFiles[i].size)>> >>)])>>,
        <<<<"e", "s", "t", "i", "m", "a", "t", "e", "d", "T", "o", "k", "e", "n", "s">>, JsonNumber(st.estimatedTokens)>>,
        <<<<"p", "r", "o", "c", "e", "s", "s", "i", "n", "g", "T", "i", "m", "e">>, JsonNumber(st.processingTime)>> >>)

RECURSIVE nodeToJson(_)
nodeToJson(node) ==
    JsonObject(
        << <<<<"n", "a", "m", "e">>, JsonString(node.name)>>,
           <<<<"p", "a", "t", "h">>, JsonString(node.path)>>,
           <<<<"t", "y", "p", "e">>, JsonString(IF node.type = "file" THEN <<"f", "i", "l", "e">> ELSE <<"d", "i", "r", "e", "c", "t", "o", "r", "y">>)>>,
           <<<<"s", "i", "z", "e">>, JsonNumber(node.size)>> >> \o
        (IF node.type = "file" /\ node.language # "undefined"
         THEN << <<<<"l", "a", "n", "g", "u", "a", "g", "e">>, JsonString(NameChars[node.language])>> >> ELSE <<>>) \o
        (IF "encoding" \in DOMAIN node
         THEN << <<<<"e", "n", "c", "o", "d", "i", "n", "g">>, JsonString(EncodingChars(node.encoding))>> >> ELSE <<>>) \o
        (IF "lineCount" \in DOMAIN node /\ node.lineCount # 0
         THEN << <<<<"l", "i", "n", "e", "C", "o", "u", "n", "t">>, JsonNumber(node.lineCount)>> >> ELSE <<>>) \o
        << <<<<"l", "a", "s", "t", "M", "o", "d", "i", "f", "i", "e", "d">>, JsonString(LastModified)>> >> \o
        (IF node.type = "directory"
         THEN << <<<<"c", "h", "i", "l", "d", "r", "e", "n">>,
                   JsonArray([i \in 1..Len(node.children) |->
                                nodeToJson(node.children[i])])>> >>
         ELSE <<>>))

\* the properties of the object that extractFileContents fills, in the
\* order of the traversal
RECURSIVE extractFileContents(_)
extractFileContents(node) ==
    IF HasContent(node)
    THEN << <<node.path,
              JsonObject(
                  << <<<<"c", "o", "n", "t", "e", "n", "t">>, JsonString(node.content)>> >> \o
                  (IF node.language # "undefined"
                   THEN << <<<<"l", "a", "n", "g", "u", "a", "g", "e">>, JsonString(NameChars[node.language])>> >>
                   ELSE <<>>) \o
                  << <<<<"e", "n", "c", "o", "d", "i", "n", "g">>, JsonString(EncodingChars(node.encoding))>>,
                     <<<<"l", "i", "n", "e", "C", "o", "u", "n", "t">>, JsonNumber(node.lineCount)>>,
                     <<<<"s", "i", "z", "e">>, JsonNumber(node.size)>>,
                     <<<<"l", "a", "s", "t", "M", "o", "d", "i", "f", "i", "e", "d">>, JsonString(LastModified)>> >>)>> >>
    ELSE IF node.type = "directory"
    THEN LET files[i \in 0..Len(node.children)] ==
               IF i = 0 THEN <<>>
               ELSE files[i - 1] \o extractFileContents(node.children[i])
         IN  files[Len(node.children)]
    ELSE <<>>

\* generateJsonOutput of an output that carries no AI insights and no
\* security analysis
generateJsonOutput(rootNode, st, keys) ==
    stringify(
        JsonObject(
            << <<<<"m", "e", "t", "a", "d", "a", "t", "a">>,
                 JsonObject(<< <<<<"s", "o", "u", "r", "c", "e">>, JsonString(Source)>>,
                               <<<<"t", "i", "m", "e", "s", "t", "a", "m", "p">>, JsonString(Timestamp)>>,
                               <<<<"f", "o", "r", "m", "a", "t">>, JsonString(<<"j", "s", "o", "n">>)>> >>)>>,
               <<<<"s", "t", "a", "t", "s">>, StatsToJson(st, keys)>>,
               <<<<"s", "t", "r", "u", "c", "t", "u", "r", "e">>, nodeToJson(rootNode)>>,
               <<<<"f", "i", "l", "e", "s">>, JsonObject(extractFileContents(rootNode))>> >>), 0)

(***************************************************************************)
(* The token count.  encoding.encode of cl100k_base first splits the text  *)
(* into pieces and then merges the bytes of each piece by its table; the   *)
(* model follows the split (runs of letters, of digits, of white space, of *)
(* other characters) and takes every piece for one token.                  *)
(***************************************************************************)
Letters ==
    {<<"a">>[1], <<"b">>[1], <<"c">>[1], <<"d">>[1], <<"e">>[1], <<"f">>[1], <<"g">>[1], <<"h">>[1], <<"i">>[1],
     <<"j">>[1], <<"k">>[1], <<"l">>[1], <<"m">>[1], <<"n">>[1], <<"o">>[1], <<"p">>[1], <<"q">>[1], <<"r">>[1],
     <<"s">>[1], <<"t">>[1], <<"u">>[1], <<"v">>[1], <<"w">>[1], <<"x">>[1], <<"y">>[1], <<"z">>[1]} \cup UpperCase

CharClass(c) ==
    IF c \in Letters THEN "letter"
    ELSE IF c \in {Digits[i] : i \in 1..10} THEN "digit"
    ELSE IF c \in {" ", "\n"} THEN "space"
    ELSE "other"

\* the pieces of the content, each named by the index of its first character
encode(content) ==
    {i \in 1..Len(content) :
        i = 1 \/ CharClass(content[i]) # CharClass(content[i - 1])}

\* Math.floor in the place of Math.ceil
calculateTokensRoundingDown(content, tokenizer) ==
    IF tokenizer = "works" THEN Cardinality(encode(content))
    ELSE Len(content) \div 4

\* the value that calculateTokens stores in stats.estimatedTokens; the
\* tokenizer "throws" when get_encoding, encode or free throws
calculateTokens(content, tokenizer) ==
    IF tokenizer = "works" THEN Cardinality(encode(content))
    ELSE (Len(content) + 3) \div 4

\* the token count taken of the file contents of the tree, one file after
\* the other, and stored by a generate that counts nothing else
RECURSIVE TokensOfFiles(_, _)
TokensOfFiles(node, tokenizer) ==
    IF HasContent(node) THEN calculateTokens(node.content, tokenizer)
    ELSE IF node.type = "directory"
    THEN LET tokens[i \in 0..Len(node.children)] ==
               IF i = 0 THEN 0
               ELSE tokens[i - 1] + TokensOfFiles(node.children[i], tokenizer)
         IN  tokens[Len(node.children)]
    ELSE 0

generateCountingFiles(rootNode, st, keys, format, tokenizer) ==
    LET content == IF format = "json" THEN generateJsonOutput(rootNode, st, keys)
                   ELSE IF format = "markdown" THEN generateMarkdownOutput(rootNode, st, keys)
                   ELSE generateTextOutput(rootNode, st, keys)
    IN  [output |-> [content  |-> content,
                     metadata |-> [source    |-> Source,
                                   timestamp |-> Timestamp,
                                   version   |-> <<"1", ".", "0", ".", "0">>,
                                   format    |-> format]],
         stats  |-> [st EXCEPT !.estimatedTokens = TokensOfFiles(rootNode, tokenizer)]]

\* generate that counts the tokens of a first rendering and renders the
\* content again with the count in the stats
generateAfterCounting(rootNode, st, keys, format, tokenizer) ==
    LET render(with) == IF format = "json" THEN generateJsonOutput(rootNode, with, keys)
                        ELSE IF format = "markdown" THEN generateMarkdownOutput(rootNode, with, keys)
                        ELSE generateTextOutput(rootNode, with, keys)
        counted == [st EXCEPT !.estimatedTokens = calculateTokens(render(st), tokenizer)]
    IN  [output |-> [content  |-> render(counted),
                     metadata |-> [source    |-> Source,
                                   timestamp |-> Timestamp,
                                   version   |-> <<"1", ".", "0", ".", "0">>,
                                   format    |-> format]],
         stats  |-> counted]

\* generate(rootNode) without an existing output: the new output, and
\* this.stats, which is also output.stats
generate(rootNode, st, keys, format, tokenizer) ==
    LET content == IF format = "json" THEN generateJsonOutput(rootNode, st, keys)
                   ELSE IF format = "markdown" THEN generateMarkdownOutput(rootNode, st, keys)
                   ELSE generateTextOutput(rootNode, st, keys)
    IN  [output |-> [content  |-> content,
                     metadata |-> [source    |-> Source,
                                   timestamp |-> Timestamp,
                                   version   |-> <<"1", ".", "0", ".", "0">>,
                                   format    |-> format]],
         stats  |-> [st EXCEPT !.estimatedTokens = calculateTokens(content, tokenizer)]]

(***************************************************************************)
(* Initial states: a file system, the options and the I/O fault of the     *)
(* walks.  Seven families: the pattern and depth options over the mixed    *)
(* trees; the size limit, the ignore files and the I/O faults over the     *)
(* mixed trees with every dealing of the contents; the flat tree; the      *)
(* scenario tree with the I/O faults of the probing of a file; the JSON    *)
(* and Markdown formats over the scenario tree and the mixed trees; the    *)
(* probe tree with the I/O outcomes of isBinaryFile; the language filter   *)
(* with and without patterns of the user.                                  *)
(***************************************************************************)
InitProcessor ==
    /\ order = 0
    /\ run = 1
    /\ pc = "ready"
    /\ query = cli
    /\ ignoreFilter = <<>>
    /\ patternMatcher = createPatternMatcher(None, None)
    /\ stats = EmptyStats
    /\ stack = <<>>
    /\ result = Null
    /\ warnings = <<>>
    /\ listed = {}
    /\ accepted = <<>>
    /\ firstResult = Null
    /\ output = Null
    /\ tiktoken = "unused"
    /\ source = [isRemote |-> FALSE, condition |-> "directory"]
    /\ step = "none"
    /\ tempDir = "none"
    /\ disk = NoFiles
    /\ stdout = <<>>
    /\ ai = [outcome |-> "unused", aiInsights |-> None, securityAnalysis |-> None]
    /\ failure = None
    /\ notices = <<>>
    /\ prompted = "not asked"

InitPatterns ==
    /\ fs \in MixedTrees(1)
    /\ fault = None
    /\ \E inc \in IncludeChoices, exc \in ExcludeChoices, d \in DepthChoices :
           cli = [DefaultOptions EXCEPT !.includePattern = inc,
                                        !.excludePattern = exc,
                                        !.depth = d]

InitLimits ==
    /\ \E stride \in 0..MaxStride : fs \in MixedTrees(stride)
    /\ fault \in FaultChoices
    /\ \E size \in MaxSizeChoices, all \in BOOLEAN :
           cli = [DefaultOptions EXCEPT !.maxSize = size,
                                        !.includeGitignored = all]

InitWide ==
    /\ \E stride \in 0..MaxStride : fs = WideTree(stride)
    /\ fault = None
    /\ \E size \in MaxSizeChoices : cli = [DefaultOptions EXCEPT !.maxSize = size]

InitScenario ==
    /\ fs = ScenarioTree
    /\ fault \in ProbeFaults
    /\ \E size \in MaxSizeChoices : cli = [DefaultOptions EXCEPT !.maxSize = size]

InitFormats ==
    /\ fs \in {ScenarioTree} \cup MixedTrees(1)
    /\ fault = None
    /\ \E format \in {"json", "markdown"} : cli = [DefaultOptions EXCEPT !.format = format]

InitProbe ==
    /\ fs = ProbeTree
    /\ fault \in {None,
                  Some([op |-> "isBinaryFile.stat", path |-> EmptyText]),
                  Some([op |-> "open", path |-> PlainFile])}
    /\ cli = DefaultOptions

LanguageChoices ==
    { <<"TypeScript">>, <<"markdown", "json">>, <<"cobol">>, <<"cobol", "Markdown">> }

InitLanguages ==
    /\ fs \in {ReadmeTree(1), TestTree(1)}
    /\ fault = None
    /\ \E languages \in LanguageChoices,
          inc \in {None, Some(<<<<"s", "r", "c", "/", "*", "*", "/", "*", ".", "t", "s">>, <<"*", "*", "/", "*", ".", "m", "d">>>>)},
          exc \in {None, Some(<<<<"*", ".", "t", "e", "s", "t", ".", "*">>>>)} :
           cli = [DefaultOptions EXCEPT !.language = languages,
                                        !.includePattern = inc,
                                        !.excludePattern = exc]

Init ==
    /\ \/ InitPatterns \/ InitLimits \/ InitWide \/ InitScenario
       \/ InitFormats \/ InitProbe \/ InitLanguages
    /\ InitProcessor

(***************************************************************************)
(* FileProcessor.process, step by step.                                    *)
(***************************************************************************)
DirectoryWarning(path) == [kind |-> "unreadable directory", path |-> path]

\* process() up to the listing of the root directory
Process ==
    /\ pc = "ready"
    /\ LET filter  == createIgnoreHelper(fs, cli.includeGitignored)
           options == IF Len(cli.language) > 0
                      THEN addLanguageFilters(cli, cli.language) ELSE cli
           pm      == createPatternMatcher(options.includePattern, options.excludePattern)
           outcome == enterDirectory(fs, fault, filter, pm, <<>>, options.depth, 0)
       IN  /\ ignoreFilter' = filter
           /\ query' = options
           /\ patternMatcher' = pm
           /\ stats' = IF outcome = "rejected" THEN stats
                       ELSE [stats EXCEPT !.totalDirectories = @ + 1]
           /\ listed' = IF outcome = "rejected" THEN listed ELSE listed \cup {<<>>}
           /\ warnings' = IF outcome = "unreadable"
                          THEN Append(warnings, DirectoryWarning(<<>>)) ELSE warnings
           /\ stack' = IF outcome = "entered" THEN <<Frame(fs, order, <<>>, 0)>> ELSE <<>>
           \* a null root node: 'No files found or all files were filtered out'
           /\ pc' = IF outcome = "entered" THEN "walking" ELSE "failed"
    /\ UNCHANGED <<fs, fault, cli, order, run, result, accepted, firstResult, output, tiktoken, mainVars>>

Walking == pc = "walking" /\ Top.entries # <<>>

EntryStats == getFileStats(fs, fault, EntryPath(Top))

EntryOutcome ==
    enterDirectory(fs, fault, ignoreFilter, patternMatcher, EntryPath(Top),
                   query.depth, Top.currentDepth + 1)

\* getFileStats of the entry fails: continue
SkipEntry ==
    /\ Walking
    /\ EntryStats = None
    /\ stack' = Consumed(Null)
    /\ UNCHANGED <<fs, fault, cli, order, run, pc, query, ignoreFilter, patternMatcher,
                   stats, result, warnings, listed, accepted, firstResult, output, tiktoken, mainVars>>

\* processDirectory of a subdirectory returns null, the directory counter
\* incremented before the checks.
SkipDirectoryCounted ==
    /\ pc = "walking" /\ Top.entries # <<>>
    /\ getFileStats(fs, fault, EntryPath(Top)) # None
    /\ getFileStats(fs, fault, EntryPath(Top))[1].isDirectory
    /\ enterDirectory(fs, fault, ignoreFilter, patternMatcher, EntryPath(Top),
                      query.depth, Top.currentDepth + 1) = "rejected"
    /\ stats' = [stats EXCEPT !.totalDirectories = @ + 1]
    /\ stack' = Consumed(Null)
    /\ UNCHANGED <<fs, fault, cli, order, run, pc, query, ignoreFilter, patternMatcher,
                   result, warnings, listed, accepted, firstResult, output, tiktoken, mainVars>>

\* processDirectory of a subdirectory returns null before counting it
SkipDirectory ==
    /\ Walking
    /\ EntryStats # None /\ EntryStats[1].isDirectory
    /\ EntryOutcome = "rejected"
    /\ stack' = Consumed(Null)
    /\ UNCHANGED <<fs, fault, cli, order, run, pc, query, ignoreFilter, patternMatcher,
                   stats, result, warnings, listed, accepted, firstResult, output, tiktoken, mainVars>>

\* fs.readdir of a subdirectory throws and nothing catches it: the walk
\* ends with the error.
FailDirectoryUncaught ==
    /\ pc = "walking" /\ Top.entries # <<>>
    /\ getFileStats(fs, fault, EntryPath(Top)) # None
    /\ getFileStats(fs, fault, EntryPath(Top))[1].isDirectory
    /\ enterDirectory(fs, fault, ignoreFilter, patternMatcher, EntryPath(Top),
                      query.depth, Top.currentDepth + 1) = "unreadable"
    /\ stats' = [stats EXCEPT !.totalDirectories = @ + 1]
    /\ listed' = listed \cup {EntryPath(Top)}
    /\ pc' = "failed"
    /\ stack' = <<>>
    /\ UNCHANGED <<fs, fault, cli, order, run, query, ignoreFilter, patternMatcher,
                   result, warnings, accepted, firstResult, output, tiktoken, mainVars>>

\* fs.readdir of a subdirectory throws and the catch displays nothing.
FailDirectorySilently ==
    /\ pc = "walking" /\ Top.entries # <<>>
    /\ getFileStats(fs, fault, EntryPath(Top)) # None
    /\ getFileStats(fs, fault, EntryPath(Top))[1].isDirectory
    /\ enterDirectory(fs, fault, ignoreFilter, patternMatcher, EntryPath(Top),
                      query.depth, Top.currentDepth + 1) = "unreadable"
    /\ stats' = [stats EXCEPT !.totalDirectories = @ + 1]
    /\ listed' = listed \cup {EntryPath(Top)}
    /\ stack' = Consumed(Null)
    /\ UNCHANGED <<fs, fault, cli, order, run, pc, query, ignoreFilter, patternMatcher,
                   result, warnings, accepted, firstResult, output, tiktoken, mainVars>>

\* fs.readdir of a subdirectory throws: a warning, null is returned
FailDirectory ==
    /\ Walking
    /\ EntryStats # None /\ EntryStats[1].isDirectory
    /\ EntryOutcome = "unreadable"
    /\ stats' = [stats EXCEPT !.totalDirectories = @ + 1]
    /\ listed' = listed \cup {EntryPath(Top)}
    /\ warnings' = Append(warnings, DirectoryWarning(EntryPath(Top)))
    /\ stack' = Consumed(Null)
    /\ UNCHANGED <<fs, fault, cli, order, run, pc, query, ignoreFilter, patternMatcher,
                   result, accepted, firstResult, output, tiktoken, mainVars>>

\* processDirectory of a subdirectory lists its entries
EnterDirectory ==
    /\ Walking
    /\ EntryStats # None /\ EntryStats[1].isDirectory
    /\ EntryOutcome = "entered"
    /\ stats' = [stats EXCEPT !.totalDirectories = @ + 1]
    /\ listed' = listed \cup {EntryPath(Top)}
    /\ stack' = Append(stack, Frame(fs, order, EntryPath(Top), Top.currentDepth + 1))
    /\ UNCHANGED <<fs, fault, cli, order, run, pc, query, ignoreFilter, patternMatcher,
                   result, warnings, accepted, firstResult, output, tiktoken, mainVars>>

\* processFile of an entry that is a file
VisitFile ==
    /\ Walking
    /\ EntryStats # None /\ EntryStats[1].isFile
    /\ LET r == processFile(fs, fault, ignoreFilter, patternMatcher, stats,
                            EntryPath(Top), parseInt(query.maxSize))
       IN  /\ stats' = r.stats
           /\ warnings' = warnings \o r.warnings
           /\ accepted' = IF r.counted
                          THEN Append(accepted, [path |-> r.node.path, size |-> r.node.size])
                          ELSE accepted
           /\ stack' = Consumed(r.node)
    /\ UNCHANGED <<fs, fault, cli, order, run, pc, query, ignoreFilter, patternMatcher,
                   result, listed, firstResult, output, tiktoken, mainVars>>

\* a subdirectory has handled all its entries: its node, or null, goes
\* back to the directory that holds it
ReturnDirectory ==
    /\ pc = "walking"
    /\ Len(stack) > 1
    /\ Top.entries = <<>>
    /\ LET node   == directoryNode(Top.relativePath, Top.children)
           parent == stack[Len(stack) - 1]
       IN  stack' = SubSeq(stack, 1, Len(stack) - 2) \o
                    <<[parent EXCEPT
                         !.entries = Tail(@),
                         !.children = IF node = Null THEN @ ELSE Append(@, node)]>>
    /\ UNCHANGED <<fs, fault, cli, order, run, pc, query, ignoreFilter, patternMatcher,
                   stats, result, warnings, listed, accepted, firstResult, output, tiktoken, mainVars>>

\* the root directory has handled all its entries: process() throws when
\* the root node is null, finalizes the stats and returns otherwise
Finish ==
    /\ pc = "walking"
    /\ Len(stack) = 1
    /\ Top.entries = <<>>
    /\ LET rootNode == directoryNode(<<>>, Top.children)
       IN  IF rootNode = Null
           THEN /\ pc' = "failed"
                /\ UNCHANGED <<stats, result>>
           ELSE \E elapsed \in 0..MaxElapsed :
                  LET final == [stats EXCEPT !.processingTime = elapsed,
                                             !.largestFiles = SortLargest(@)]
                  IN  /\ stats' = final
                      /\ result' = [rootNode |-> rootNode, stats |-> final]
                      /\ pc' = "done"
    /\ stack' = <<>>
    /\ UNCHANGED <<fs, fault, cli, order, run, query, ignoreFilter, patternMatcher,
                   warnings, listed, accepted, firstResult, output, tiktoken, mainVars>>

\* main hands what process() returned to a new OutputGenerator: generate()
Generate ==
    /\ pc = "done"
    /\ output = Null
    /\ \E outcome \in {"works", "throws"} :
           LET generated == generate(result.rootNode, stats,
                                     KeysOf(stats.languageBreakdown, accepted),
                                     query.format, outcome)
           IN  /\ output' = generated.output
               /\ stats' = generated.stats
               /\ tiktoken' = outcome
    /\ UNCHANGED <<fs, fault, cli, order, run, pc, query, ignoreFilter, patternMatcher,
                   stack, result, warnings, listed, accepted, firstResult, mainVars>>

\* The same tree is walked again by a new FileProcessor with the same
\* options, the file system enumerating its directories in another order.
Rerun ==
    /\ pc \in {"done", "failed"}
    /\ run = 1
    /\ run' = 2
    /\ firstResult' = [outcome |-> pc, result |-> result]
    /\ order' \in 1..MaxOrder
    /\ pc' = "ready"
    /\ query' = cli
    /\ ignoreFilter' = <<>>
    /\ patternMatcher' = createPatternMatcher(None, None)
    /\ stats' = EmptyStats
    /\ stack' = <<>>
    /\ result' = Null
    /\ warnings' = <<>>
    /\ listed' = {}
    /\ accepted' = <<>>
    /\ output' = Null
    /\ tiktoken' = "unused"
    /\ UNCHANGED <<fs, fault, cli, mainVars>>

Next ==
    \/ Process
    \/ SkipEntry
    \/ SkipDirectory
    \/ FailDirectory
    \/ EnterDirectory
    \/ VisitFile
    \/ ReturnDirectory
    \/ Finish
    \/ Generate
    \/ Rerun

Spec == Init /\ [][Next]_vars

(***************************************************************************)
(* main: the run of the command from the parsed query to the end of the    *)
(* process.  The options are valid, none of the AI configuration commands  *)
(* is given and the mode is not interactive.                               *)
(***************************************************************************)
\* getDefaultOutputPath
getDefaultOutputPath(format) ==
    IF format = "json" THEN <<"d", "i", "g", "e", "s", "t", ".", "j", "s", "o", "n">>
    ELSE IF format = "markdown" THEN <<"d", "i", "g", "e", "s", "t", ".", "m", "d">>
    ELSE <<"d", "i", "g", "e", "s", "t", ".", "t", "x", "t">>

\* parseQuery: query.outputPath
outputPath(options) ==
    IF options.output # <<>> THEN options.output ELSE getDefaultOutputPath(options.format)

\* validateLocalPath: the message of the error it throws, None when it
\* returns.  fs.stat throws with a code; the error thrown inside the try
\* for a path that is no directory has no code and is caught there too.
validateLocalPath(condition) ==
    LET thrown == IF condition = "missing" THEN Some([code |-> "ENOENT"])
                  ELSE IF condition = "denied" THEN Some([code |-> "EACCES"])
                  ELSE IF condition = "file"
                  THEN Some([code |-> "undefined", message |-> "Path is not a directory"])
                  ELSE None
    IN  IF thrown = None THEN None
        ELSE IF thrown[1].code = "ENOENT" THEN Some("Directory does not exist")
        ELSE Some("Cannot access directory")

\* collectTextFiles: the files with a content that is no sentinel, in the
\* order of the tree
RECURSIVE collectTextFiles(_)
collectTextFiles(node) ==
    IF HasContent(node) THEN <<node>>
    ELSE IF node.type = "directory"
    THEN LET below[i \in 0..Len(node.children)] ==
               IF i = 0 THEN <<>>
               ELSE below[i - 1] \o collectTextFiles(node.children[i])
         IN  below[Len(node.children)]
    ELSE <<>>

SecurityLanguages == {"JavaScript", "TypeScript", "Python", "Java", "PHP"}

\* what the AI service answers: whether initialize() returns true, whether
\* a call of the service raises, the repository analysis that
\* analyzeRepository returns (None for null) and whether the analyses of
\* the security files succeed with a security part
ServiceAnswers ==
    [available : BOOLEAN, raises : BOOLEAN,
     overview : {None, Some(<<"A", " ", "d", "e", "m", "o", " ", "p", "r", "o", "j", "e", "c", "t", ".">>)}, secure : BOOLEAN]

\* performAIAnalysis with a catch that throws the error again
performAIAnalysisRethrowing(rootNode, options, service) ==
    IF ~service.available
    THEN [outcome |-> "unavailable", aiInsights |-> None, securityAnalysis |-> None,
          failure |-> None,
          notices |-> <<"AI service initialization failed. Skipping AI analysis.">>]
    ELSE [outcome |-> "raised", aiInsights |-> None, securityAnalysis |-> None,
          failure |-> Some("AI analysis failed"),
          notices |-> <<>>]

\* performAIAnalysis: the aiInsights and securityAnalysis properties that
\* the output has when it returns (the content of the output is not
\* touched), the error it throws (none) and its messages
performAIAnalysis(rootNode, options, service) ==
    LET textFiles      == collectTextFiles(rootNode)
        filesToAnalyze == slice(textFiles, 10)
        securityFiles  == slice(SelectSeq(textFiles,
                                          LAMBDA f : f.language \in SecurityLanguages), 5)
        analysed       == IF options.aiAnalysis THEN Len(filesToAnalyze) ELSE 0
    IN  IF ~service.available
        THEN [outcome |-> "unavailable", aiInsights |-> None, securityAnalysis |-> None,
              failure |-> None,
              notices |-> <<"AI service initialization failed. Skipping AI analysis.">>]
        ELSE IF service.raises
        THEN [outcome |-> "raised", aiInsights |-> None, securityAnalysis |-> None,
              failure |-> None,
              notices |-> <<"AI analysis error">>]
        ELSE [outcome |-> "analysed",
              aiInsights |-> Some([overview |-> IF options.aiSummary
                                                THEN service.overview ELSE None,
                                   fileAnalyses |-> analysed,
                                   filesAnalyzed |-> analysed,
                                   totalFiles |-> Len(textFiles)]),
              securityAnalysis |->
                  IF options.securityScan /\ Len(securityFiles) > 0 /\ service.secure
                  THEN Some([results |-> Len(securityFiles)])
                  ELSE None,
              failure |-> None,
              notices |-> <<>>]

\* JSON.stringify(JSON.parse(content)) of a content that JSON.stringify
\* wrote with an indent: the white space between the tokens goes
compress(content) ==
    LET backslashes(j) ==
          CHOOSE n \in 0..(j - 1) :
              /\ \A m \in 1..n : content[j - m] = "\\"
              /\ n = j - 1 \/ content[j - n - 1] # "\\"
        \* the quotes that open or close a string
        quotes == {j \in 1..Len(content) :
                      content[j] = "\"" /\ backslashes(j) % 2 = 0}
        inString(i) == Cardinality({j \in quotes : j < i}) % 2 = 1
        indexed == [i \in 1..Len(content) |-> <<i, content[i]>>]
        kept == SelectSeq(indexed,
                          LAMBDA p : p[2] \notin {" ", "\n"} \/ inString(p[1]))
    IN  [k \in 1..Len(kept) |-> kept[k][2]]

\* outputPath.replace(/\.[^.]+$/, '.stats.json'): the last dot of the path
\* and what follows it, when something follows it, are replaced
statsPathOf(path) ==
    LET dots == {i \in 1..Len(path) : path[i] = "."}
        last == CHOOSE i \in dots : \A j \in dots : j <= i
    IN  IF dots # {} /\ last < Len(path)
        THEN SubSeq(path, 1, last - 1) \o <<".", "s", "t", "a", "t", "s", ".", "j", "s", "o", "n">>
        ELSE path

\* fs.writeFile
writeFile(files, path, content) ==
    [p \in DOMAIN files \cup {path} |-> IF p = path THEN content ELSE files[p]]

\* whether handleOutput asks before it writes
mustAskNever(fileExists, force) == FALSE
mustAsk(fileExists, force) == fileExists /\ ~force

\* what the I/O calls of the writing part of handleOutput can do
WriteOutcomes == {"written", "mkdir fails", "writeFile fails", "writeFile of the stats fails"}

\* the try block of handleOutput: the files afterwards, and whether it threw
writeOutput(files, options, digest, st, keys, io) ==
    LET content   == IF options.compress /\ options.format = "json"
                     THEN compress(digest.content) ELSE digest.content
        statsPath == statsPathOf(outputPath(options))
        written   == writeFile(files, outputPath(options), content)
    IN  IF io \in {"mkdir fails", "writeFile fails"}
        THEN [disk |-> files, threw |-> TRUE]
        ELSE IF ~options.stats THEN [disk |-> written, threw |-> FALSE]
        ELSE IF io = "writeFile of the stats fails" THEN [disk |-> written, threw |-> TRUE]
        ELSE [disk  |-> writeFile(written, statsPath, stringify(StatsToJson(st, keys), 0)),
              threw |-> FALSE]

AIEnabled == cli.aiAnalysis \/ cli.aiSummary \/ cli.securityScan

\* main up to the call of process() for a local source: validateLocalPath
ValidateLocalPath ==
    /\ step = "start"
    /\ ~source.isRemote
    /\ LET error == validateLocalPath(source.condition)
       IN  IF error = None
           THEN /\ pc' = "ready"
                /\ step' = "processing"
                /\ failure' = failure
           ELSE /\ pc' = pc
                /\ step' = "finally"
                /\ failure' = error
    /\ UNCHANGED <<fs, fault, cli, order, run, query, ignoreFilter, patternMatcher,
                   stats, stack, result, warnings, listed, accepted, firstResult, output,
                   tiktoken, source, tempDir, disk, stdout, ai, notices, prompted>>

\* main up to the call of process() for a remote source:
\* handleRemoteRepository
HandleRemoteRepository ==
    /\ step = "start"
    /\ source.isRemote
    /\ \E io \in {"cloned", "mkdtemp fails", "clone fails"} :
          IF source.condition = "invalid URL"
          THEN /\ failure' = Some("Invalid repository URL")
               /\ step' = "finally"
               /\ UNCHANGED <<pc, tempDir>>
          ELSE IF io = "mkdtemp fails"
          THEN /\ failure' = Some("mkdtemp failed")
               /\ step' = "finally"
               /\ UNCHANGED <<pc, tempDir>>
          ELSE /\ tempDir' = "exists"
               /\ IF io = "clone fails"
                  THEN /\ failure' = Some("Failed to clone repository")
                       /\ step' = "finally"
                       /\ pc' = pc
                  ELSE /\ failure' = failure
                       /\ step' = "processing"
                       /\ pc' = "ready"
    /\ UNCHANGED <<fs, fault, cli, order, run, query, ignoreFilter, patternMatcher,
                   stats, stack, result, warnings, listed, accepted, firstResult, output,
                   tiktoken, source, disk, stdout, ai, notices, prompted>>

\* process() threw: main's catch throws the error again
ProcessFailed ==
    /\ step = "processing"
    /\ pc = "failed"
    /\ failure' = Some("No files found or all files were filtered out")
    /\ step' = "finally"
    /\ UNCHANGED <<fs, fault, cli, order, run, pc, query, ignoreFilter, patternMatcher,
                   stats, stack, result, warnings, listed, accepted, firstResult, output,
                   tiktoken, source, tempDir, disk, stdout, ai, notices, prompted>>

Rendered == step = "processing" /\ pc = "done" /\ output # Null

\* main: performAIAnalysis when an AI option is set
PerformAIAnalysis ==
    /\ Rendered
    /\ AIEnabled
    /\ \E service \in ServiceAnswers :
          LET returned == performAIAnalysis(result.rootNode, cli, service)
          IN  /\ ai' = [outcome          |-> returned.outcome,
                        aiInsights       |-> returned.aiInsights,
                        securityAnalysis |-> returned.securityAnalysis]
              /\ notices' = notices \o returned.notices
              /\ failure' = returned.failure
              /\ step' = IF returned.failure = None THEN "analysed" ELSE "finally"
    /\ UNCHANGED <<fs, fault, cli, order, run, pc, query, ignoreFilter, patternMatcher,
                   stats, stack, result, warnings, listed, accepted, firstResult, output,
                   tiktoken, source, tempDir, disk, stdout, prompted>>

\* the try block of handleOutput and main's displaySuccess after it
WriteOutput ==
    \E io \in WriteOutcomes :
       LET wrote == writeOutput(disk, cli, output, stats,
                                KeysOf(stats.languageBreakdown, accepted), io)
       IN  /\ disk' = wrote.disk
           /\ failure' = IF wrote.threw THEN Some("Failed to write output") ELSE failure
           /\ step' = "finally"

\* handleOutput up to the prompt, and to its end when it does not ask
HandleOutput ==
    /\ \/ step = "analysed"
       \/ Rendered /\ ~AIEnabled
    /\ IF outputPath(cli) = <<"-">>
       THEN /\ stdout' = stdout \o output.content
            /\ step' = "finally"
            /\ UNCHANGED <<disk, failure>>
       ELSE IF mustAsk(outputPath(cli) \in DOMAIN disk, cli.force)
       THEN /\ step' = "prompt"
            /\ UNCHANGED <<disk, failure, stdout>>
       ELSE /\ WriteOutput
            /\ stdout' = stdout
    /\ UNCHANGED <<fs, fault, cli, order, run, pc, query, ignoreFilter, patternMatcher,
                   stats, stack, result, warnings, listed, accepted, firstResult, output,
                   tiktoken, source, tempDir, ai, notices, prompted>>

\* the user answers the prompt of handleOutput: process.exit(0) when the
\* answer is no, the writing part when it is yes
AnswerPrompt ==
    /\ step = "prompt"
    /\ \E shouldOverwrite \in BOOLEAN :
          IF shouldOverwrite
          THEN /\ prompted' = "confirmed"
               /\ WriteOutput
               /\ notices' = notices
          ELSE /\ prompted' = "declined"
               /\ notices' = Append(notices, "Operation cancelled by user")
               /\ step' = "exited"
               /\ UNCHANGED <<disk, failure>>
    /\ UNCHANGED <<fs, fault, cli, order, run, pc, query, ignoreFilter, patternMatcher,
                   stats, stack, result, warnings, listed, accepted, firstResult, output,
                   tiktoken, source, tempDir, stdout, ai>>

\* the finally block of main, and the end of main: it returns, or throws
\* what its catch threw again
Finally ==
    /\ step = "finally"
    /\ \E io \in {"removed", "rm fails"} :
          IF tempDir = "exists"
          THEN IF io = "removed"
               THEN /\ tempDir' = "removed"
                    /\ notices' = notices
               ELSE /\ tempDir' = tempDir
                    /\ notices' = Append(notices, "Could not clean up temporary directory")
          ELSE UNCHANGED <<tempDir, notices>>
    /\ step' = IF failure = None THEN "returned" ELSE "threw"
    /\ UNCHANGED <<fs, fault, cli, order, run, pc, query, ignoreFilter, patternMatcher,
                   stats, stack, result, warnings, listed, accepted, firstResult, output,
                   tiktoken, source, disk, stdout, ai, failure, prompted>>

\* the output directory before the run: empty, or with an earlier digest
\* at the output path
OldDigest == <<"o", "l", "d">>
DiskChoices(options) ==
    {NoFiles} \cup (IF outputPath(options) = <<"-">> THEN {}
                    ELSE {outputPath(options) :> OldDigest})

InitRun ==
    /\ order = 0
    /\ run = 1
    /\ pc = "not constructed"
    /\ query = cli
    /\ ignoreFilter = <<>>
    /\ patternMatcher = createPatternMatcher(None, None)
    /\ stats = EmptyStats
    /\ stack = <<>>
    /\ result = Null
    /\ warnings = <<>>
    /\ listed = {}
    /\ accepted = <<>>
    /\ firstResult = Null
    /\ output = Null
    /\ tiktoken = "unused"
    /\ step = "start"
    /\ tempDir = "none"
    /\ disk \in DiskChoices(cli)
    /\ stdout = <<>>
    /\ ai = [outcome |-> "unused", aiInsights |-> None, securityAnalysis |-> None]
    /\ failure = None
    /\ notices = <<>>
    /\ prompted = "not asked"

\* local paths of every condition, with and without --force
InitLocal ==
    /\ source \in [isRemote : {FALSE}, condition : {"directory", "missing", "file", "denied"}]
    /\ fs \in {ProjectTree, EmptyTree}
    /\ fault = None
    /\ \E force \in BOOLEAN, path \in {<<"d", "i", "g", "e", "s", "t", ".", "t", "x", "t">>, <<>>} :
           cli = [DefaultOptions EXCEPT !.force = force, !.output = path]

\* walks that skip entries and directories and that meet I/O errors
InitWalks ==
    /\ source = [isRemote |-> FALSE, condition |-> "directory"]
    /\ fs = ProjectTree
    /\ fault \in {Some([op |-> "readdir", path |-> <<"a">>]),
                  Some([op |-> "stat", path |-> SourceFile]),
                  Some([op |-> "readdir", path |-> <<>>])}
    /\ \E d \in {None, Some(0)} :
           cli = [DefaultOptions EXCEPT !.depth = d, !.output = <<"-">>]

\* remote sources
InitRemote ==
    /\ source \in [isRemote : {TRUE}, condition : {"repository", "invalid URL"}]
    /\ fs \in {ProjectTree, EmptyTree}
    /\ fault = None
    /\ \E force \in BOOLEAN, format \in {"text", "json"} :
           cli = [DefaultOptions EXCEPT !.force = force, !.format = format]

\* the output options
OutputPaths == {<<"d", "i", "g", "e", "s", "t", ".", "t", "x", "t">>, <<"d", "i", "g", "e", "s", "t">>, <<"o", "u", "t", ".", "d", "/", "d", "i", "g", "e", "s", "t">>, <<"-">>}
InitOutputs ==
    /\ source = [isRemote |-> FALSE, condition |-> "directory"]
    /\ fs = ProjectTree
    /\ fault = None
    /\ \E path \in OutputPaths, format \in {"text", "json", "markdown"},
          force \in BOOLEAN, withStats \in BOOLEAN, compressed \in BOOLEAN :
           cli = [DefaultOptions EXCEPT !.output = path, !.format = format, !.force = force,
                                        !.stats = withStats, !.compress = compressed]

\* the AI options
InitAI ==
    /\ source \in {[isRemote |-> FALSE, condition |-> "directory"],
                   [isRemote |-> TRUE, condition |-> "repository"]}
    /\ fs = ProjectTree
    /\ fault = None
    /\ \E format \in {"text", "json", "markdown"},
          analysis \in BOOLEAN, summary \in BOOLEAN, scan \in BOOLEAN :
           /\ analysis \/ summary \/ scan
           /\ cli = [DefaultOptions EXCEPT !.format = format, !.force = TRUE,
                                           !.aiAnalysis = analysis, !.aiSummary = summary,
                                           !.securityScan = scan]

InitMain ==
    /\ (InitLocal \/ InitWalks \/ InitRemote \/ InitOutputs \/ InitAI)
    /\ InitRun

NextMain ==
    \/ ValidateLocalPath
    \/ HandleRemoteRepository
    \/ Process
    \/ SkipEntry
    \/ SkipDirectory
    \/ FailDirectory
    \/ EnterDirectory
    \/ VisitFile
    \/ ReturnDirectory
    \/ Finish
    \/ ProcessFailed
    \/ Generate
    \/ PerformAIAnalysis
    \/ HandleOutput
    \/ AnswerPrompt
    \/ Finally

MainSpec == InitMain /\ [][NextMain]_vars

(***************************************************************************)
(* Properties.  The vocabulary they share.                                 *)
(***************************************************************************)
\* every node of the tree below and including n
RECURSIVE NodesOf(_)
NodesOf(n) ==
    IF n.type = "directory"
    THEN {n} \cup UNION {NodesOf(n.children[i]) : i \in 1..Len(n.children)}
    ELSE {n}

\* the walk has ended, with a tree or with the no-files error
Ended == pc \in {"done", "failed"}

\* the nodes of the tree that process() returned (none when it threw)
OutputNodes == IF pc = "done" THEN NodesOf(result.rootNode) ELSE {}
OutputFiles == {n.path : n \in {m \in OutputNodes : m.type = "file"}}
OutputDirectories == {n.path : n \in {m \in OutputNodes : m.type = "directory"}}

\* the file nodes of the tree that a finished walk returned
FileNodes == {m \in OutputNodes : m.type = "file"}

\* the nodes built so far: those held by the pending calls and the output
PendingNodes ==
    UNION {UNION {NodesOf(stack[k].children[i]) : i \in 1..Len(stack[k].children)} :
             k \in 1..Len(stack)}

\* p lies beneath the directory d
Beneath(p, d) == d \in Ancestors(p)

\* the path matches one of the globs (gitignore reading: a glob that a
\* directory above the path matches, matches the path)
MatchesSome(patterns, p) == Ignores(MakeRules(patterns), p)

\* the directory path d matches one of the globs, a glob ending in "/"
\* included
DirectoryMatchesSome(patterns, d) ==
    Ignores(MakeRules(patterns), d \o <<"/">>)

IncludeGlobs == patternMatcher.includePatterns
ExcludeGlobs == patternMatcher.excludePatterns

\* the file p passes everything but the include globs: it was handed to
\* processFile, it is not denied, not excluded and within the size limit
Eligible(p) ==
    /\ dirname(p) \in listed
    /\ ~Fails(fault, "readdir", dirname(p))
    /\ getFileStats(fs, fault, p) # None
    /\ ~shouldIgnore(ignoreFilter, p)
    /\ ~MatchesSome(ExcludeGlobs, p)
    /\ SizeOf(fs, p) <= parseInt(query.maxSize)

\* C1: with at least one include glob configured, a file that is not
\* denied, not excluded and within the size limit is in the output tree
\* if and only if its path matches at least one include glob.
C1_IncludedIffMatches ==
    (Ended /\ IncludeGlobs # <<>>) =>
        \A p \in DOMAIN fs.files :
            Eligible(p) => (p \in OutputFiles <=> MatchesSome(IncludeGlobs, p))

\* C2: a file or directory whose path matches an exclude glob is never in
\* the output tree, and nothing beneath an excluded directory is visited:
\* an excluded directory is not listed.
C2_ExcludedNeverVisited ==
    /\ \A n \in OutputNodes \cup PendingNodes :
           n.path # <<>> => ~MatchesSome(ExcludeGlobs, n.path)
    /\ \A n \in OutputNodes \cup PendingNodes :
           (n.path # <<>> /\ n.type = "directory")
               => ~DirectoryMatchesSome(ExcludeGlobs, n.path)
    /\ \A d \in fs.dirs :
           DirectoryMatchesSome(ExcludeGlobs, d) => d \notin listed

\* C3: if some file beneath the directory d matches an include glob and d
\* matches no exclude glob, shouldInclude(d, isFile = false) is true; with
\* no include glob it is true for every directory that is not excluded.
C3_DirectoryKeptWhenFileMatches ==
    pc # "ready" =>
        \A d \in fs.dirs :
            ( /\ ~DirectoryMatchesSome(ExcludeGlobs, d)
              /\ \/ IncludeGlobs = <<>>
                 \/ \E p \in DOMAIN fs.files :
                        Beneath(p, d) /\ MatchesSome(IncludeGlobs, p) )
            => shouldInclude(patternMatcher, d, FALSE)

\* the sum of the sizes of a finite set of nodes
RECURSIVE TotalSize(_)
TotalSize(nodes) ==
    IF nodes = {} THEN 0
    ELSE LET n == CHOOSE m \in nodes : TRUE
         IN  n.size + TotalSize(nodes \ {n})

ChildrenOf(n) == {n.children[i] : i \in 1..Len(n.children)}
FilesOf(n) == {m \in NodesOf(n) : m.type = "file"}
DirectoryNodes == {n \in OutputNodes \cup PendingNodes : n.type = "directory"}

\* C4: in the tree of a successful walk, the size of every directory node
\* is the sum of the sizes of its children, and so the sum of the sizes of
\* the file nodes beneath it, which are the sizes of the files on disk.
C4_DirectorySizeIsSumOfChildren ==
    \A n \in DirectoryNodes :
        /\ n.size = TotalSize(ChildrenOf(n))
        /\ n.size = TotalSize(FilesOf(n))
        /\ \A m \in FilesOf(n) : m.size = SizeOf(fs, m.path)

\* a successful walk returned a directory that holds a directory and a
\* file, neither of them of size 0
C4_Witness ==
    /\ pc = "done"
    /\ \E n \in OutputNodes :
           /\ n.type = "directory" /\ n.path # <<>>
           /\ \E c \in ChildrenOf(n) : c.type = "directory" /\ c.size > 0
           /\ \E c \in ChildrenOf(n) : c.type = "file" /\ c.size > 0

\* the children of n are grouped (directories first) and, in each group,
\* in non-decreasing order of the comparison cmp
Ordered(n, cmp(_, _)) ==
    \A i, j \in 1..Len(n.children) :
        i < j =>
            LET a == n.children[i]
                b == n.children[j]
            IN  /\ ~(a.type = "file" /\ b.type = "directory")
                /\ a.type = b.type => cmp(a.name, b.name) <= 0

\* UTF-16 code units of the characters of the names
CodeUnit ==
    ("*" :> 42) @@ ("." :> 46) @@ ("/" :> 47) @@
    [c \in {"0", "1", "2", "3", "4", "5", "6", "7", "8", "9"} |->
        48 + DigitValue(c)] @@
    [c \in DOMAIN PrimaryWeight \ {"*", ".", "/", "0", "1", "2", "3", "4", "5",
                                   "6", "7", "8", "9"} |->
        IF IsUpper(c) THEN 51 + PrimaryWeight[c] ELSE 83 + PrimaryWeight[c]]

\* the comparison of two strings by code units (the < of JavaScript)
RECURSIVE CompareCodeUnits(_, _)
CompareCodeUnits(a, b) ==
    IF a = <<>> /\ b = <<>> THEN 0
    ELSE IF a = <<>> THEN -1
    ELSE IF b = <<>> THEN 1
    ELSE IF CodeUnit[Head(a)] # CodeUnit[Head(b)]
         THEN (IF CodeUnit[Head(a)] < CodeUnit[Head(b)] THEN -1 ELSE 1)
    ELSE CompareCodeUnits(Tail(a), Tail(b))

Timeless(st) == [st EXCEPT !.processingTime = 0]

\* C6: for the same tree and the same options, two walks that receive the
\* directory entries in different orders return the same tree (the same
\* nodes in the same order) and the same Stats in every field but
\* processingTime, the contents and the order of largestFiles included.
C6_SameResultInAnyOrder ==
    (run = 2 /\ Ended) =>
        /\ pc = firstResult.outcome
        /\ pc = "done" =>
               /\ result.rootNode = firstResult.result.rootNode
               /\ Timeless(result.stats) = Timeless(firstResult.result.stats)

\* the part of C6 that is about the tree alone
C6_SameTreeInAnyOrder ==
    (run = 2 /\ Ended) =>
        /\ pc = firstResult.outcome
        /\ pc = "done" =>
               /\ result.rootNode = firstResult.result.rootNode
               /\ [Timeless(result.stats) EXCEPT !.largestFiles = <<>>]
                      = [Timeless(firstResult.result.stats) EXCEPT !.largestFiles = <<>>]

AcceptedFiles == {accepted[i] : i \in 1..Len(accepted)}
AcceptedPaths == {a.path : a \in AcceptedFiles}

\* C7: after a successful walk that accepted n files, in whatever order
\* they were visited, largestFiles holds min(n, 10) entries, each an
\* accepted file, no file twice, in descending order of size, and no
\* accepted file that is left out is larger than an entry; at no moment of
\* a walk does the list hold more than 10 entries.
C7_LargestFilesAreTheTopTen ==
    /\ Len(stats.largestFiles) <= 10
    /\ pc = "done" =>
           LET largest == result.stats.largestFiles
               n == Len(accepted)
               kept == {largest[i] : i \in 1..Len(largest)}
           IN  /\ Len(largest) = IF n < 10 THEN n ELSE 10
               /\ kept \subseteq AcceptedFiles
               /\ Cardinality({e.path : e \in kept}) = Len(largest)
               /\ \A i, j \in 1..Len(largest) :
                      i < j => largest[i].size >= largest[j].size
               /\ \A a \in AcceptedFiles \ kept, e \in kept : a.size <= e.size

\* a successful walk, enumerating in another order than the sorted one,
\* accepted more than 10 files: the file visited last is kept and a
\* smaller file that was visited before it is left out
C7_Witness ==
    /\ pc = "done" /\ run = 2
    /\ Len(accepted) > 10
    /\ LET largest == result.stats.largestFiles
           kept == {largest[i] : i \in 1..Len(largest)}
           last == accepted[Len(accepted)]
       IN  /\ Len(largest) = 10
           /\ largest[1].size > largest[10].size
           /\ last \in kept
           /\ \E a \in AcceptedFiles \ kept : a.size < last.size

\* C8: no directory node of the tree has an empty children list and every
\* directory node has at least one file node beneath it; a directory that
\* was listed is in the returned tree exactly when the walk accepted a file
\* beneath it, so a directory whose entries are all filtered out returns
\* nothing to its parent, and neither does the parent when nothing else is
\* left in it.
C8_NoEmptyDirectoryNode ==
    /\ \A n \in DirectoryNodes : n.children # <<>> /\ FilesOf(n) # {}
    /\ pc = "done" =>
           \A d \in listed :
               d \in OutputDirectories
                   <=> (d = <<>> \/ \E p \in AcceptedPaths : Beneath(p, d))

\* a successful walk listed a directory and a directory inside it and
\* returned neither: all the entries of the inner one were filtered out and
\* the outer one held nothing else that survived
C8_Witness ==
    /\ pc = "done"
    /\ \E d, e \in listed :
           /\ d # <<>> /\ dirname(e) = d
           /\ EntryNames(fs, e) # {}
           /\ d \notin OutputDirectories /\ e \notin OutputDirectories

\* the file p is one that processFile accepts in a directory that the walk
\* has listed
Accepts(p) ==
    /\ dirname(p) \in listed
    /\ ~Fails(fault, "readdir", dirname(p))
    /\ getFileStats(fs, fault, p) # None
    /\ ~shouldIgnore(ignoreFilter, p)
    /\ shouldInclude(patternMatcher, p, TRUE)
    /\ shouldProcessFile(SizeOf(fs, p), parseInt(query.maxSize))

\* C9: process() fails with the no-files error exactly when the root
\* directory is left without children, that is when the walk accepted no
\* file; an unreadable subdirectory, an unreadable file or an oversize file
\* produces a warning and the walk goes on: at its end every file that
\* processFile accepts in a listed directory has been accepted.
C9_FailsOnlyWithoutFiles ==
    Ended =>
        /\ pc = "failed" <=> AcceptedPaths = {}
        /\ pc = "done" => result.rootNode.children # <<>>
        /\ \A p \in DOMAIN fs.files : Accepts(p) => p \in AcceptedPaths
        /\ pc = "done" => AcceptedPaths = OutputFiles

\* a walk that enumerates in sorted order could not read a subdirectory of
\* the root, warned, accepted a file of the root that comes after that
\* subdirectory and returned a tree
C9_Witness ==
    /\ pc = "done" /\ run = 1
    /\ \E i \in 1..Len(warnings) :
           /\ warnings[i].kind = "unreadable directory"
           /\ dirname(warnings[i].path) = <<>>
           /\ \E p \in OutputFiles :
                  dirname(p) = <<>> /\ localeCompare(warnings[i].path, p) < 0

MaxDepth == query.depth[1]

\* C10: with maxDepth = d (the root at depth 0) no directory at a depth
\* greater than d is listed, counted or in the tree, and no file beneath
\* one is accepted or in the tree; the directories at depth <= d that pass
\* the filters are listed and the files in them that processFile accepts
\* are in the tree; with maxDepth = 0 only files of the root are in the
\* tree and the walk fails when it accepts none of them.
C10_DepthLimit ==
    (pc # "ready" /\ query.depth # None) =>
        /\ \A d \in listed : DepthOf(d) <= MaxDepth
        /\ stats.totalDirectories <= Cardinality({d \in fs.dirs \cup {<<>>} : DepthOf(d) <= MaxDepth})
        /\ \A n \in OutputNodes \cup PendingNodes :
               IF n.type = "directory" THEN DepthOf(n.path) <= MaxDepth
               ELSE DepthOf(dirname(n.path)) <= MaxDepth
        /\ \A p \in AcceptedPaths : DepthOf(dirname(p)) <= MaxDepth
        /\ Ended =>
               /\ \A e \in fs.dirs :
                      ( /\ DepthOf(e) <= MaxDepth
                        /\ dirname(e) \in listed
                        /\ ~Fails(fault, "readdir", dirname(e))
                        /\ ~shouldIgnore(ignoreFilter, e)
                        /\ shouldInclude(patternMatcher, e, FALSE) )
                      => e \in listed
               /\ \A p \in DOMAIN fs.files :
                      (DepthOf(dirname(p)) <= MaxDepth /\ Accepts(p))
                          => p \in AcceptedPaths
               /\ MaxDepth = 0 =>
                      /\ OutputFiles \subseteq {p \in DOMAIN fs.files : dirname(p) = <<>>}
                      /\ ({p \in DOMAIN fs.files : dirname(p) = <<>> /\ Accepts(p)} = {})
                             => pc = "failed"

\* a successful walk with maxDepth = 1 returned a file of a directory at
\* depth 1 and did not list the directory at depth 2 that it holds
C10_Witness ==
    /\ pc = "done"
    /\ query.depth = Some(1)
    /\ \E d \in listed, e \in fs.dirs :
           /\ DepthOf(d) = 1 /\ dirname(e) = d
           /\ e \notin listed
           /\ ~shouldIgnore(ignoreFilter, e)
           /\ shouldInclude(patternMatcher, e, FALSE)
           /\ \E p \in OutputFiles : dirname(p) = d

\* the walk is about to hand the file Entry to processFile, and the file
\* passes the ignore helper, the patterns and fs.stat
Entry == EntryPath(Top)
FileReachesSizeCheck ==
    /\ pc = "walking" /\ Top.entries # <<>>
    /\ getFileStats(fs, fault, Entry) # None
    /\ getFileStats(fs, fault, Entry)[1].isFile
    /\ ~shouldIgnore(ignoreFilter, Entry)
    /\ shouldInclude(patternMatcher, Entry, TRUE)

LargeFileWarning(p) == [kind |-> "large file", path |-> p]

\* C11: a file that reaches the size check with a size strictly greater
\* than maxSize produces no node and one warning and leaves every field of
\* Stats as it was; a file whose size is maxSize or less is processed: it
\* produces a node, no large-file warning, and it is counted.
C11_OversizeFileLeavesStats ==
    [][ FileReachesSizeCheck =>
          IF SizeOf(fs, Entry) > parseInt(query.maxSize)
          THEN /\ stats' = stats
               /\ warnings' = Append(warnings, LargeFileWarning(Entry))
               /\ accepted' = accepted
               /\ stack'[Len(stack')].children = Top.children
          ELSE /\ stats'.totalFiles = stats.totalFiles + 1
               /\ stats'.totalSize = stats.totalSize + SizeOf(fs, Entry)
               /\ LargeFileWarning(Entry) \notin
                      {warnings'[i] : i \in 1..Len(warnings')}
               /\ Len(stack'[Len(stack')].children) = Len(Top.children) + 1
               /\ stack'[Len(stack')].children[Len(Top.children) + 1].path = Entry
      ]_vars

\* a walk has skipped a file larger than maxSize with a warning and has
\* accepted a file of exactly maxSize bytes
C11_Witness ==
    /\ \E i \in 1..Len(warnings) :
           /\ warnings[i].kind = "large file"
           /\ SizeOf(fs, warnings[i].path) > parseInt(query.maxSize)
           /\ warnings[i].path \notin AcceptedPaths
    /\ \E a \in AcceptedFiles : a.size = parseInt(query.maxSize)

\* C12: after a successful walk, stats.totalDirectories is the number of
\* directories of the returned tree: each directory that was visited and
\* not pruned counts once, and a directory that was dropped because it was
\* left without children, or because it could not be read, does not count.
C12_CountsDirectoriesOfTheTree ==
    pc = "done" => stats.totalDirectories = Cardinality(OutputDirectories)

\* what the walk does count: every directory that passed the checks of
\* processDirectory, whether or not it was read and kept
C12_CountsListedDirectories ==
    stats.totalDirectories = Cardinality(listed)

BinarySentinel == <<"[", "b", "i", "n", "a", "r", "y", "]">>
UnreadableSentinel == <<"[", "u", "n", "r", "e", "a", "d", "a", "b", "l", "e", "]">>

\* the tree and the counters of the walk of the scenario tree, with the
\* given value of totalDirectories
ScenarioResult(directories) ==
    /\ Len(result.rootNode.children) = 1
    /\ LET a == result.rootNode.children[1]
       IN  /\ a.type = "directory" /\ a.name = <<"a">>
           /\ Len(a.children) = 2
           /\ a.children[1].type = "file"
           /\ a.children[1].path = TextFile
           /\ a.children[1].content = fs.files[TextFile]
           /\ a.children[1].lineCount = 2
           /\ a.children[2].type = "file"
           /\ a.children[2].path = BinaryFile
           /\ a.children[2].content = BinarySentinel
    /\ result.stats.totalFiles = 2
    /\ result.stats.binaryFiles = 1
    /\ result.stats.totalDirectories = directories

ScenarioWalked ==
    /\ fs = ScenarioTree /\ fault = None /\ cli = DefaultOptions
    /\ Ended

\* C13: for a root whose only content is the directory a holding b.txt
\* (text 'hello\nworld') and c.bin (binary), with the default options, the
\* walk returns a root with the single directory child a having the file
\* children b.txt (text, lineCount 2) and c.bin (binary), and the stats are
\* totalFiles = 2, binaryFiles = 1 and totalDirectories = 2: the root is
\* counted as well as a.
C13_ScenarioCountsTheRoot ==
    ScenarioWalked => pc = "done" /\ ScenarioResult(2)

\* C13 as stated: the same tree and totalFiles = 2, binaryFiles = 1, with
\* totalDirectories = 1.
C13_ScenarioOneDirectory ==
    ScenarioWalked => pc = "done" /\ ScenarioResult(1)

\* the walk of the scenario tree with the default options has returned
C13_Witness ==
    /\ ScenarioWalked /\ pc = "done"
    /\ TextFile \in OutputFiles /\ BinaryFile \in OutputFiles

\* the number of files of the language in the histogram
CountOf(breakdown, language) ==
    IF language \in DOMAIN breakdown THEN breakdown[language] ELSE 0

\* C14: each accepted file changes Stats by exactly this: totalFiles + 1;
\* totalSize + its size on disk; languageBreakdown[L] + 1 if and only if a
\* language L was detected; binaryFiles + 1 if and only if isBinaryFile
\* classifies it binary; textSize + its size if and only if it was read as
\* text; no other counter changes, and a step of the walk that accepts no
\* file changes no counter but totalDirectories.
C14_StatsDeltaOfAnAcceptedFile ==
    [][ pc = "walking" /\ pc' = "walking" =>
          IF accepted' # accepted
          THEN LET size     == SizeOf(fs, Entry)
                   language == detectLanguage(Entry)
                   binary   == isBinaryFile(fs, fault, Entry)
                   text     == ~binary /\ ~Fails(fault, "readFile", Entry)
               IN  /\ accepted' = Append(accepted, [path |-> Entry, size |-> size])
                   /\ stats'.totalFiles = stats.totalFiles + 1
                   /\ stats'.totalSize = stats.totalSize + size
                   /\ \A l \in DOMAIN stats.languageBreakdown
                               \cup DOMAIN stats'.languageBreakdown \cup {language} :
                          CountOf(stats'.languageBreakdown, l)
                              = CountOf(stats.languageBreakdown, l)
                                + (IF l = language /\ language # "undefined" THEN 1 ELSE 0)
                   /\ stats'.binaryFiles = stats.binaryFiles + (IF binary THEN 1 ELSE 0)
                   /\ stats'.textSize = stats.textSize + (IF text THEN size ELSE 0)
                   /\ stats'.totalDirectories = stats.totalDirectories
                   /\ stats'.estimatedTokens = stats.estimatedTokens
                   /\ stats'.processingTime = stats.processingTime
          ELSE stats' = [stats EXCEPT !.totalDirectories = stats'.totalDirectories]
      ]_vars

\* a walk has accepted a binary file and a text file, a file with a
\* detected language and a file without one
C14_Witness ==
    /\ pc = "walking"
    /\ stats.binaryFiles > 0 /\ stats.textSize > 0
    /\ \E p \in AcceptedPaths : detectLanguage(p) = "undefined"
    /\ \E p \in AcceptedPaths : detectLanguage(p) # "undefined"
    /\ \E p \in AcceptedPaths : ~isBinaryFile(fs, fault, p) /\ SizeOf(fs, p) > 0

UnreadableFileWarning(p) == [kind |-> "unreadable file", path |-> p]

\* C15: when fs.readFile of a file classified as non-binary fails,
\* processFile does not raise: the walk goes on, one warning is emitted,
\* the file node carries the unreadable sentinel as content, the file is
\* counted in totalFiles and totalSize with its size on disk, and it is
\* added neither to textSize nor to binaryFiles.
C15_UnreadableFileIsCounted ==
    [][ ( /\ FileReachesSizeCheck
          /\ shouldProcessFile(SizeOf(fs, Entry), parseInt(query.maxSize))
          /\ ~isBinaryFile(fs, fault, Entry)
          /\ Fails(fault, "readFile", Entry) )
        => /\ pc' = "walking"
           /\ warnings' = Append(warnings, UnreadableFileWarning(Entry))
           /\ LET children == stack'[Len(stack')].children
                  node == children[Len(children)]
              IN  /\ Len(children) = Len(Top.children) + 1
                  /\ node.type = "file" /\ node.path = Entry
                  /\ node.content = UnreadableSentinel
                  /\ node.size = SizeOf(fs, Entry)
           /\ stats'.totalFiles = stats.totalFiles + 1
           /\ stats'.totalSize = stats.totalSize + SizeOf(fs, Entry)
           /\ stats'.textSize = stats.textSize
           /\ stats'.binaryFiles = stats.binaryFiles
      ]_vars

\* a walk has returned a tree in which a file of positive size that could
\* not be read carries the unreadable sentinel
C15_Witness ==
    /\ pc = "done"
    /\ \E n \in OutputNodes :
           /\ n.type = "file" /\ n.content = UnreadableSentinel
           /\ n.size > 0
           /\ Fails(fault, "readFile", n.path)
           /\ UnreadableFileWarning(n.path) \in {warnings[i] : i \in 1..Len(warnings)}

\* the walk is about to call processDirectory for the subdirectory Entry,
\* which passes the checks of the depth, of the ignore helper and of the
\* patterns, and fs.readdir of it fails
SubdirectoryCannotBeListed ==
    /\ pc = "walking" /\ Top.entries # <<>>
    /\ Entry \in fs.dirs
    /\ query.depth # None => Top.currentDepth + 1 <= query.depth[1]
    /\ ~shouldIgnore(ignoreFilter, Entry)
    /\ shouldInclude(patternMatcher, Entry, FALSE)
    /\ Fails(fault, "readdir", Entry)

\* C16: when listing a subdirectory fails, the walk emits a warning, the
\* directory gives no node to its parent, the walk goes on with the
\* remaining siblings, which are processed as they would be otherwise, and
\* the walk succeeds when some file elsewhere survives.
C16_UnreadableDirectoryIsDropped ==
    /\ [][ SubdirectoryCannotBeListed =>
             /\ pc' = "walking"
             /\ warnings' = Append(warnings, DirectoryWarning(Entry))
             /\ Len(stack') = Len(stack)
             /\ stack'[Len(stack')].children = Top.children
             /\ stack'[Len(stack')].entries = Tail(Top.entries)
             /\ accepted' = accepted
         ]_vars
    /\ [](Ended =>
            \A d \in fs.dirs :
                Fails(fault, "readdir", d) =>
                    /\ \A n \in OutputNodes : n.path # d /\ ~Beneath(n.path, d)
                    /\ \A p \in DOMAIN fs.files :
                           (~Beneath(p, d) /\ Accepts(p)) => p \in AcceptedPaths
                    /\ AcceptedPaths # {} => pc = "done")

\* a walk could not list a directory that holds a file, warned, and
\* returned a tree without it, in which a sibling directory and a file of
\* that sibling are present
C16_Witness ==
    /\ pc = "done"
    /\ \E d \in listed :
           /\ d # <<>> /\ Fails(fault, "readdir", d)
           /\ DirectoryWarning(d) \in {warnings[i] : i \in 1..Len(warnings)}
           /\ \E p \in DOMAIN fs.files : dirname(p) = d
           /\ d \notin OutputDirectories
           /\ \E e \in OutputDirectories :
                  e # d /\ dirname(e) = dirname(d) /\ e # <<>>

\* the probe of the file p gets as far as fs.open: neither the extension,
\* nor the size 0, nor the MIME type has decided before
ProbeOpens(p) ==
    /\ extname(p) \notin BINARY_EXTENSIONS
    /\ SizeOf(fs, p) > 0
    /\ \/ MimeLookup(extname(p)) = None
       \/ StartsWith(MimeLookup(extname(p))[1], <<"t", "e", "x", "t", "/">>)

\* an I/O call of the probe of the file p is made and fails
ProbeFails(p) ==
    \/ Fails(fault, "isBinaryFile.stat", p)
    \/ ProbeOpens(p) /\ (Fails(fault, "open", p) \/ Fails(fault, "isBinaryFile.read", p))

\* C17: an I/O error while probing a file (stat, open or read) makes
\* isBinaryFile return true without raising: the walk goes on without a
\* warning, the file is emitted with the binary sentinel as content and
\* counted in binaryFiles, and nothing is added to textSize.
C17_ProbeErrorMeansBinary ==
    /\ [](\A p \in DOMAIN fs.files : ProbeFails(p) => isBinaryFile(fs, fault, p))
    /\ [][ ( /\ FileReachesSizeCheck
             /\ shouldProcessFile(SizeOf(fs, Entry), parseInt(query.maxSize))
             /\ ProbeFails(Entry) )
           => /\ pc' = "walking"
              /\ warnings' = warnings
              /\ LET children == stack'[Len(stack')].children
                     node == children[Len(children)]
                 IN  /\ Len(children) = Len(Top.children) + 1
                     /\ node.path = Entry
                     /\ node.content = BinarySentinel
                     /\ "lineCount" \notin DOMAIN node
              /\ stats'.binaryFiles = stats.binaryFiles + 1
              /\ stats'.textSize = stats.textSize
         ]_vars

\* a walk has returned a tree in which a file without a NUL byte, which
\* could not be probed, carries the binary sentinel and is counted binary
C17_Witness ==
    /\ pc = "done"
    /\ \E n \in OutputNodes :
           /\ n.type = "file" /\ ProbeFails(n.path)
           /\ \A i \in 1..Len(fs.files[n.path]) : fs.files[n.path][i] # NUL
           /\ n.content = BinarySentinel
           /\ result.stats.binaryFiles >= 1
           /\ result.stats.textSize = 0

\* every path of the model's file systems
ModelPaths ==
    LET files == {MixedFiles[i] : i \in 1..Len(MixedFiles)}
                 \cup {WideName(i) : i \in 1..(NumWide + 1)}
                 \cup {GitignorePath, TextFile, BinaryFile, ScratchFile}
    IN  files \cup UNION {Ancestors(p) : p \in files} \cup {EmptyDirectory}

\* the paths that the default deny patterns, all of them, match
DefaultDenied ==
    {p \in ModelPaths : Ignores(MakeRules(DEFAULT_IGNORE_PATTERNS), p)}

\* the paths that the patterns of the ignore files of the root match
DeniedByIgnoreFiles ==
    {p \in DOMAIN fs.files \cup fs.dirs :
        Ignores(MakeRules(LoadIgnoreFiles(fs, IgnoreFileNames)), p)}

DirectoryRejected(d) ==
    shouldIgnore(ignoreFilter, d) \/ ~shouldInclude(patternMatcher, d, FALSE)

\* C19: a subdirectory whose path is rejected by shouldIgnore or by
\* shouldInclude(path, isFile = false) is skipped entirely: the step that
\* meets it changes no field of Stats (totalDirectories included), lists
\* nothing, warns of nothing and gives no node to the parent, which goes on
\* with its next entry; the directory is never listed and nothing beneath
\* it is accepted or in the tree.
C19_RejectedDirectoryIsSkipped ==
    /\ [][ (pc = "walking" /\ Top.entries # <<>> /\ Entry \in fs.dirs
              /\ DirectoryRejected(Entry))
           => /\ stats' = stats
              /\ listed' = listed
              /\ warnings' = warnings
              /\ accepted' = accepted
              /\ pc' = "walking"
              /\ Len(stack') = Len(stack)
              /\ stack'[Len(stack')].children = Top.children
              /\ stack'[Len(stack')].entries = Tail(Top.entries)
         ]_vars
    /\ [](pc # "ready" =>
            \A d \in fs.dirs :
                DirectoryRejected(d) =>
                    /\ d \notin listed
                    /\ \A e \in listed : ~Beneath(e, d)
                    /\ \A p \in AcceptedPaths : ~Beneath(p, d)
                    /\ \A n \in OutputNodes \cup PendingNodes :
                           n.path # d /\ ~Beneath(n.path, d))

\* a walk has returned a tree after it met a directory that the ignore
\* helper rejects and that holds a file which nothing else would filter
C19_Witness ==
    /\ pc = "done"
    /\ \E d \in fs.dirs :
           /\ shouldIgnore(ignoreFilter, d)
           /\ dirname(d) \in listed /\ d \notin listed
           /\ \E p \in DOMAIN fs.files :
                  /\ dirname(p) = d
                  /\ ~MatchesSome(ExcludeGlobs, p)
                  /\ p \notin OutputFiles
    /\ stats.totalDirectories = Cardinality(listed)

\* a walk has returned a tree after it met a directory that the patterns
\* reject and that holds a file
C19_WitnessOfPatterns ==
    /\ pc = "done"
    /\ \E d \in fs.dirs :
           /\ ~shouldIgnore(ignoreFilter, d)
           /\ ~shouldInclude(patternMatcher, d, FALSE)
           /\ dirname(d) \in listed /\ d \notin listed
           /\ \E p \in DOMAIN fs.files : dirname(p) = d

(***************************************************************************)
(* The token estimate of generate().                                       *)
(***************************************************************************)
\* generate() has returned its output
Generated == output # Null

\* Math.ceil(n / 4): the least integer that is not below n / 4
CeilOfQuarter(n) == CHOOSE q \in 0..n : 4 * q >= n /\ 4 * q < n + 4

\* C20: once generate() has returned, stats.estimatedTokens is the token
\* count of the whole rendered string that it returned as content: the
\* count of the tokenizer when the tokenizer worked, and the length of the
\* content divided by four and rounded up when it threw.
C20_TokensOfTheRenderedContent ==
    Generated =>
        /\ tiktoken \in {"works", "throws"}
        /\ tiktoken = "works" =>
               stats.estimatedTokens = Cardinality(encode(output.content))
        /\ tiktoken = "throws" =>
               stats.estimatedTokens = CeilOfQuarter(Len(output.content))

\* the tokenizer threw on a content whose length is no multiple of four,
\* and the estimate is not the one of the file contents alone
C20_Witness ==
    /\ Generated
    /\ tiktoken = "throws"
    /\ Len(output.content) % 4 # 0
    /\ \E n \in NodesOf(result.rootNode) : HasContent(n)
    /\ stats.estimatedTokens # TokensOfFiles(result.rootNode, "throws")

\* the tokenizer worked, on a content that holds the content of a file
C20_WitnessOfTokenizer ==
    /\ Generated
    /\ tiktoken = "works"
    /\ query.format = "json"
    /\ \E n \in NodesOf(result.rootNode) : HasContent(n)
    /\ stats.estimatedTokens # TokensOfFiles(result.rootNode, "works")

(***************************************************************************)
(* C25: the order of the rules of the binary detection                     *)
(***************************************************************************)
\* the four rules, each answering Some(verdict) when it applies to the
\* file p and None when it does not
ExtensionRule(p) ==
    IF \E e \in BINARY_EXTENSIONS :
           Len(e) <= Len(p) /\ ToLower(SubSeq(p, Len(p) - Len(e) + 1, Len(p))) = e
                            /\ \A i \in (Len(p) - Len(e) + 2)..Len(p) : p[i] # "."
                            /\ Len(basename(p)) > Len(e)
    THEN Some(TRUE) ELSE None
EmptyRule(p) == IF fs.files[p] = <<>> THEN Some(FALSE) ELSE None
MimeRule(p) ==
    LET type == MimeLookup(extname(p))
    IN  IF type = None THEN None
        ELSE IF SubSeq(type[1], 1, 5) = <<"t", "e", "x", "t", "/">> THEN None
        ELSE IF Contains(type[1], <<"j", "s", "o", "n">>) \/ Contains(type[1], <<"x", "m", "l">>) THEN None
        ELSE Some(TRUE)
ChunkRule(p) ==
    Some(NUL \in {fs.files[p][i] : i \in 1..Min(Len(fs.files[p]), 1024)})

BinaryRules(p) == <<ExtensionRule(p), EmptyRule(p), MimeRule(p), ChunkRule(p)>>
FirstVerdict(p) ==
    LET rules == BinaryRules(p)
        first == CHOOSE k \in 1..4 : rules[k] # None /\ \A j \in 1..(k - 1) : rules[j] = None
    IN  rules[first][1]

\* no I/O call on the file p fails
ReadsWell(p) ==
    \A op \in {"stat", "isBinaryFile.stat", "open", "isBinaryFile.read", "readFile"} :
        ~Fails(fault, op, p)

\* C25: when no I/O call fails, isBinaryFile answers with the verdict of
\* the first rule that applies, in the order (1) extension in the table of
\* binary extensions: binary, also for an empty file; (2) size 0: not
\* binary; (3) a known MIME type that is not text/* and names neither json
\* nor xml: binary; (4) binary exactly when a NUL byte is among the first
\* min(size, 1024) bytes: so for every file of the file system that is
\* walked (which no step changes), and a file that the walk accepts is
\* counted in binaryFiles exactly when that verdict is binary.
C25_FirstRuleDecides ==
    /\ \A p \in DOMAIN fs.files :
           ReadsWell(p) => (isBinaryFile(fs, fault, p) <=> FirstVerdict(p))
    /\ [][ ( /\ FileReachesSizeCheck
             /\ shouldProcessFile(SizeOf(fs, Entry), parseInt(query.maxSize))
             /\ ReadsWell(Entry) )
           => stats'.binaryFiles = stats.binaryFiles + (IF FirstVerdict(Entry) THEN 1 ELSE 0)
         ]_vars

\* a walk has returned the tree of the files that tell the rules apart:
\* each rule has decided for one of them, the empty file with an extension
\* of the table and the file of a MIME type that is not text are binary,
\* the empty text file, the JSON file and the file whose only NUL byte
\* lies behind the probed chunk are text
C25_Witness ==
    /\ pc = "done" /\ fs = ProbeTree /\ fault = None
    /\ \A k \in 1..4 : \E p \in OutputFiles :
           LET rules == BinaryRules(p)
           IN  rules[k] # None /\ \A j \in 1..(k - 1) : rules[j] = None
    /\ \A n \in FileNodes :
           /\ n.path \in {EmptyImage, ScriptFile, NulFile} => n.content = <<"[", "b", "i", "n", "a", "r", "y", "]">>
           /\ n.path \in {EmptyText, JsonFile, LongFile, PlainFile} => n.content = fs.files[n.path]
    /\ {EmptyImage, EmptyText, ScriptFile, JsonFile, NulFile, LongFile, PlainFile}
           \subseteq OutputFiles
    /\ result.stats.binaryFiles = 3

(***************************************************************************)
(* C26: the language filter                                                *)
(***************************************************************************)
KnownLanguages == {"javascript", "typescript", "python", "java", "cpp", "c", "csharp",
                   "go", "rust", "php", "ruby", "swift", "kotlin", "scala", "html",
                   "css", "sql", "shell", "markdown", "json", "yaml", "xml"}

\* a language filter is given and each of its names is a known language
KnownLanguageFilter ==
    /\ Len(cli.language) > 0
    /\ \A i \in 1..Len(cli.language) : toLowerCase(cli.language[i]) \in KnownLanguages

\* the extension globs of the first n requested languages, in their order
RECURSIVE ExtensionGlobs(_)
ExtensionGlobs(n) ==
    IF n = 0 THEN <<>>
    ELSE ExtensionGlobs(n - 1) \o languageExtensions[toLowerCase(cli.language[n])]

UserIncludes == IF cli.includePattern = None THEN <<>> ELSE cli.includePattern[1]
ExpandedIncludes == UserIncludes \o ExtensionGlobs(Len(cli.language))
RebuiltMatcher == createPatternMatcher(Some(ExpandedIncludes), cli.excludePattern)

\* C26: with a language filter of known names, from the start of the
\* traversal on the include globs of the query are the include patterns of
\* the user followed by the extension globs of each requested language,
\* the exclude patterns are those of the user, the pattern matcher of the
\* walk is the one built from this expanded set, and the decision on
\* every file that the walk comes to is the answer of that matcher.
C26_LanguageGlobsAppended ==
    /\ []( (KnownLanguageFilter /\ pc # "ready") =>
             /\ query.includePattern = Some(ExpandedIncludes)
             /\ query.excludePattern = cli.excludePattern
             /\ patternMatcher = RebuiltMatcher )
    /\ [][ ( /\ KnownLanguageFilter
             /\ pc = "walking" /\ Top.entries # <<>>
             /\ getFileStats(fs, fault, Entry) # None
             /\ getFileStats(fs, fault, Entry)[1].isFile
             /\ ~shouldIgnore(ignoreFilter, Entry)
             /\ shouldProcessFile(SizeOf(fs, Entry), parseInt(query.maxSize)) )
           => ( shouldInclude(RebuiltMatcher, Entry, TRUE)
                  <=> stats'.totalFiles = stats.totalFiles + 1 )
         ]_vars

\* a walk with include patterns of the user and two requested languages
\* has finished: the globs of Markdown and of JSON follow the patterns of
\* the user, and a file has been accepted
C26_Witness ==
    /\ pc = "done"
    /\ cli.language = <<"markdown", "json">>
    /\ cli.includePattern = Some(<<<<"s", "r", "c", "/", "*", "*", "/", "*", ".", "t", "s">>, <<"*", "*", "/", "*", ".", "m", "d">>>>)
    /\ query.includePattern =
           Some(<<<<"s", "r", "c", "/", "*", "*", "/", "*", ".", "t", "s">>, <<"*", "*", "/", "*", ".", "m", "d">>, <<"*", "*", "/", "*", ".", "m", "d">>, <<"*", "*", "/", "*", ".", "m", "a", "r", "k", "d", "o", "w", "n">>, <<"*", "*", "/", "*", ".", "j", "s", "o", "n">>>>)
    /\ result.stats.totalFiles >= 1

(***************************************************************************)
(* C28: the Stats against the returned tree                                *)
(***************************************************************************)
Walked == pc = "done"
BinaryNodes == {n \in FileNodes : n.content = BinarySentinel}
\* the file nodes of files that the walk counted as binary
CountedBinary == {n \in FileNodes : isBinaryFile(fs, fault, n.path)}

\* C28: after a successful walk totalFiles is the number of file nodes of
\* the tree, totalSize is the size of the root node, binaryFiles is the
\* number of file nodes that carry the binary sentinel, textSize is at
\* most totalSize, and every counted file is a node of the tree.
C28_StatsAgreeWithTree ==
    Walked =>
        /\ result.stats.totalFiles = Cardinality(FileNodes)
        /\ result.stats.totalSize = result.rootNode.size
        /\ result.stats.binaryFiles = Cardinality(BinaryNodes)
        /\ result.stats.textSize <= result.stats.totalSize
        /\ AcceptedPaths \subseteq OutputFiles

\* C28, with the binary files told by the probe and not by the content of
\* the node: binaryFiles is the number of file nodes whose file the probe
\* calls binary; a node with the sentinel as content that is not among
\* them is a text file whose content is the text of the sentinel.
C28_StatsAgreeWithProbe ==
    Walked =>
        /\ result.stats.totalFiles = Cardinality(FileNodes)
        /\ result.stats.totalSize = result.rootNode.size
        /\ result.stats.binaryFiles = Cardinality(CountedBinary)
        /\ result.stats.textSize <= result.stats.totalSize
        /\ AcceptedPaths \subseteq OutputFiles
        /\ \A n \in BinaryNodes \ CountedBinary : fs.files[n.path] = <<"[", "b", "i", "n", "a", "r", "y", "]">>

(***************************************************************************)
(* C29: the token figure inside the content                                *)
(***************************************************************************)
\* the text that shows the figure n of estimated tokens in a content of
\* the format: the line of the summary, or the property of the stats
TokenFigure(format, n) ==
    IF format = "json" THEN <<"\"", "e", "s", "t", "i", "m", "a", "t", "e", "d", "T", "o", "k", "e", "n", "s", "\"", ":", " ">> \o ToDigits(n) \o <<",", "\n">>
    ELSE IF format = "markdown" THEN <<"-", " ", "*", "*", "E", "s", "t", "i", "m", "a", "t", "e", "d", " ", "T", "o", "k", "e", "n", "s", "*", "*", ":", " ">> \o toLocaleString(n) \o <<"\n">>
    ELSE <<"E", "s", "t", "i", "m", "a", "t", "e", "d", " ", "T", "o", "k", "e", "n", "s", ":", " ", "~">> \o toLocaleString(n) \o <<"\n">>

\* C29: the content is rendered before the tokens are counted: the figure
\* of estimated tokens inside the content that generate() returns (the
\* summary line of the text and Markdown formats, the stats property of
\* the JSON format) is the value that estimatedTokens had before the
\* call, 0 at the first call, and not the value that the stats hold when
\* generate() returns.
C29_FigureIsTheEarlierEstimate ==
    [][ (output = Null /\ output' # Null) =>
          /\ stats.estimatedTokens = 0
          /\ Contains(output'.content, TokenFigure(query.format, stats.estimatedTokens))
          /\ stats'.estimatedTokens # stats.estimatedTokens
          /\ ~Contains(output'.content, TokenFigure(query.format, stats'.estimatedTokens))
      ]_vars

\* generate() has returned a Markdown content that shows 0 estimated
\* tokens while the stats hold the count of that content
C29_Witness ==
    /\ Generated
    /\ query.format = "markdown"
    /\ Contains(output.content, <<"-", " ", "*", "*", "E", "s", "t", "i", "m", "a", "t", "e", "d", " ", "T", "o", "k", "e", "n", "s", "*", "*", ":", " ", "0", "\n">>)
    /\ stats.estimatedTokens = calculateTokens(output.content, tiktoken)
    /\ stats.estimatedTokens > 0

\* the same for a JSON content and for a text content
C29_WitnessOfFormats ==
    /\ Generated
    /\ \/ query.format = "json" /\ Contains(output.content, <<"\"", "e", "s", "t", "i", "m", "a", "t", "e", "d", "T", "o", "k", "e", "n", "s", "\"", ":", " ", "0", ",", "\n">>)
       \/ query.format = "text" /\ Contains(output.content, <<"E", "s", "t", "i", "m", "a", "t", "e", "d", " ", "T", "o", "k", "e", "n", "s", ":", " ", "~", "0", "\n">>)
    /\ stats.estimatedTokens > 0

(***************************************************************************)
(* Properties of main (specification MainSpec).                            *)
(***************************************************************************)
MainEnded == step \in {"returned", "threw", "exited"}
Noticed(message) == \E i \in 1..Len(notices) : notices[i] = message
\* the content that handleOutput hands to fs.writeFile for the digest
DigestContent ==
    IF cli.compress /\ cli.format = "json" THEN compress(output.content) ELSE output.content
WroteToFile == step = "returned" /\ outputPath(cli) # <<"-">>

(***************************************************************************)
(* C21: the temporary directory of a remote source                         *)
(***************************************************************************)
\* C21: once main has created the temporary clone directory of a remote
\* source, the directory is removed when the process ends, however the
\* run ends (unless the removal itself fails), and it is not removed
\* while the traversal and the generation of the output have not finished.
C21_TempDirRemovedAtTheEnd ==
    /\ (MainEnded /\ tempDir # "none"
          /\ ~Noticed("Could not clean up temporary directory"))
         => tempDir = "removed"
    /\ (source.isRemote /\ pc \in {"ready", "walking"}) => tempDir = "exists"
    /\ (source.isRemote /\ pc = "done" /\ output = Null) => tempDir = "exists"

\* C21 for the runs in which main returns or throws: the finally block
\* has removed the directory; the directory exists as long as the walk and
\* generate() run, and only the finally block removes it.
C21_RemovedWhenMainEnds ==
    /\ [](( step \in {"returned", "threw"} /\ tempDir # "none"
            /\ ~Noticed("Could not clean up temporary directory") )
          => tempDir = "removed")
    /\ []((source.isRemote /\ pc \in {"ready", "walking"}) => tempDir = "exists")
    /\ []((source.isRemote /\ pc = "done" /\ output = Null) => tempDir = "exists")
    /\ [][tempDir' # tempDir =>
            \/ tempDir = "none" /\ tempDir' = "exists" /\ step = "start"
            \/ tempDir = "exists" /\ tempDir' = "removed" /\ step = "finally"]_vars

\* the user declined to overwrite the output file of a remote source and
\* the process has ended by process.exit(0) with the directory in place
C21_ExitLeavesTheDirectory ==
    /\ step = "exited"
    /\ prompted = "declined"
    /\ source.isRemote
    /\ tempDir = "exists"

(***************************************************************************)
(* C22: the AI insights in the written digest                              *)
(***************************************************************************)
\* the text with which a rendering of the format begins its AI part: the
\* heading that generateAIInsights and generateMarkdownOutput push, the
\* property that generateJsonOutput adds
AISection(format) ==
    IF format = "json" THEN <<"\"", "a", "i", "I", "n", "s", "i", "g", "h", "t", "s", "\"", ":", " ">>
    ELSE IF format = "markdown" THEN <<"#", "#", " ", "A", "I", " ", "A", "n", "a", "l", "y", "s", "i", "s">> ELSE <<"A", "I", " ", "I", "N", "S", "I", "G", "H", "T", "S">>
SecuritySection == <<"\"", "s", "e", "c", "u", "r", "i", "t", "y", "A", "n", "a", "l", "y", "s", "i", "s", "\"", ":", " ">>

\* C22: when an AI option is set and the AI analysis succeeds, the digest
\* content that main writes holds the AI insights and, in JSON, for a
\* security scan with results, the security analysis.
C22_WrittenContentHoldsInsights ==
    (WroteToFile /\ ai.outcome = "analysed") =>
        /\ Contains(disk[outputPath(cli)], AISection(cli.format))
        /\ (ai.securityAnalysis # None /\ cli.format = "json")
              => Contains(disk[outputPath(cli)], SecuritySection)

\* C22 as the code has it: after a successful analysis the insights (and
\* the security analysis of a scan with results) are properties of the
\* output object, and the content that is written is the content that
\* generate() returned before the analysis, without an AI part.
C22_InsightsOnlyOnTheOutput ==
    (WroteToFile /\ ai.outcome = "analysed") =>
        /\ ai.aiInsights # None
        /\ disk[outputPath(cli)] = DigestContent
        /\ ~Contains(disk[outputPath(cli)], AISection(cli.format))
        /\ ~Contains(disk[outputPath(cli)], SecuritySection)

\* a JSON digest has been written after a security scan with results
C22_ScanWithResults ==
    /\ WroteToFile /\ ai.outcome = "analysed"
    /\ cli.format = "json" /\ cli.securityScan
    /\ ai.securityAnalysis # None
    /\ ai.aiInsights # None

(***************************************************************************)
(* C23: failures of the AI step                                            *)
(***************************************************************************)
AIFailed == ai.outcome \in {"unavailable", "raised"}

\* C23: when the AI service cannot be initialised or an AI step raises,
\* performAIAnalysis returns the output as it was and main goes on to
\* handleOutput without an error: what main writes is the content that
\* was produced before the AI step, and a run that the AI step alone
\* troubled ends successfully.
C23_AIFailureIsSwallowed ==
    /\ [][ (Rendered /\ AIEnabled /\ step' # step /\ ai'.outcome \in {"unavailable", "raised"})
             => /\ output' = output
                /\ ai'.aiInsights = None /\ ai'.securityAnalysis = None
                /\ failure' = None
                /\ step' = "analysed"
                /\ Len(notices') = Len(notices) + 1 ]_vars
    /\ []((AIFailed /\ WroteToFile) =>
             /\ failure = None
             /\ disk[outputPath(cli)] = DigestContent
             /\ output.content = IF cli.format = "json"
                                 THEN generateJsonOutput(result.rootNode, [stats EXCEPT !.estimatedTokens = 0], KeysOf(stats.languageBreakdown, accepted))
                                 ELSE IF cli.format = "markdown"
                                 THEN generateMarkdownOutput(result.rootNode, [stats EXCEPT !.estimatedTokens = 0], KeysOf(stats.languageBreakdown, accepted))
                                 ELSE generateTextOutput(result.rootNode, [stats EXCEPT !.estimatedTokens = 0], KeysOf(stats.languageBreakdown, accepted)))
    /\ []((AIFailed /\ step = "threw") => failure = Some("Failed to write output"))

\* an AI step raised and main has returned after writing the digest
C23_Witness ==
    /\ step = "returned"
    /\ ai.outcome = "raised"
    /\ Noticed("AI analysis error")
    /\ disk[outputPath(cli)] = output.content

\* the AI service could not be initialised and main has returned
C23_WitnessOfInitialize ==
    /\ step = "returned"
    /\ ai.outcome = "unavailable"
    /\ disk[outputPath(cli)] = output.content

C24_WitnessOfDecline ==
    /\ step = "exited" /\ prompted = "declined" /\ cli.stats
    /\ disk = (outputPath(cli) :> OldDigest)

\* the content has gone to standard output
C24_WitnessOfStdout ==
    /\ step = "returned" /\ outputPath(cli) = <<"-">> /\ cli.stats
    /\ stdout = output.content /\ Len(stdout) > 0 /\ disk = NoFiles

\* --force has overwritten the earlier digest without a prompt
C24_WitnessOfForce ==
    /\ step = "returned" /\ cli.force /\ prompted = "not asked"
    /\ disk[outputPath(cli)] = output.content

(***************************************************************************)
(* C27: the errors of a local path                                         *)
(***************************************************************************)
Traversed == pc # "not constructed"

\* C27: for a local source main fails before any traversal when the root
\* does not exist or is not a directory, with the error 'Directory does
\* not exist' for the one and 'Path is not a directory' for the other.
C27_DistinctErrors ==
    (~source.isRemote /\ step # "start") =>
        /\ source.condition = "missing" =>
               failure = Some("Directory does not exist") /\ ~Traversed
        /\ source.condition = "file" =>
               failure = Some("Path is not a directory") /\ ~Traversed

\* C27 as the code has it: main fails before any traversal in both
\* cases; a root that does not exist gives 'Directory does not exist', a
\* root that is no directory gives 'Cannot access directory', the error of
\* a path that cannot be accessed.
C27_FailsBeforeTraversal ==
    (~source.isRemote /\ step # "start") =>
        /\ source.condition = "missing" =>
               failure = Some("Directory does not exist") /\ ~Traversed
        /\ source.condition \in {"file", "denied"} =>
               failure = Some("Cannot access directory") /\ ~Traversed
        /\ source.condition = "directory" => Traversed

\* main has thrown for a root that is a file
C27_RootIsAFile ==
    /\ step = "threw" /\ source.condition = "file"
    /\ failure = Some("Cannot access directory")

(***************************************************************************)
(* C30: the statistics file                                                *)
(***************************************************************************)
\* the path of the statistics file: the output path with '.stats.json' in
\* the place of its extension
StatsFileOfDigest == statsPathOf(outputPath(cli))

\* C30: with --stats and an output file, the statistics file is written
\* to a path that differs from the output path, and the output file holds
\* the digest content; so for every output path, also one without an
\* extension.
C30_StatsBesideTheDigest ==
    (WroteToFile /\ cli.stats) =>
        /\ StatsFileOfDigest # outputPath(cli)
        /\ StatsFileOfDigest \in DOMAIN disk
        /\ disk[outputPath(cli)] = DigestContent

\* C30 for the output paths with a last dot that something follows
C30_StatsBesideTheDigestWithExtension ==
    (WroteToFile /\ cli.stats
       /\ \E i \in 1..(Len(outputPath(cli)) - 1) :
             /\ outputPath(cli)[i] = "."
             /\ \A j \in (i + 1)..Len(outputPath(cli)) : outputPath(cli)[j] # ".") =>
        /\ StatsFileOfDigest # outputPath(cli)
        /\ StatsFileOfDigest \in DOMAIN disk
        /\ disk[outputPath(cli)] = DigestContent
        /\ disk[StatsFileOfDigest] = stringify(StatsToJson(stats, KeysOf(stats.languageBreakdown, accepted)), 0)

\* the digest was written to a path without an extension and the
\* statistics were written over it
C30_StatsOverTheDigest ==
    /\ WroteToFile /\ cli.stats
    /\ outputPath(cli) = <<"d", "i", "g", "e", "s", "t">>
    /\ DOMAIN disk = {<<"d", "i", "g", "e", "s", "t">>}
    /\ disk[<<"d", "i", "g", "e", "s", "t">>] = stringify(StatsToJson(stats, KeysOf(stats.languageBreakdown, accepted)), 0)
    /\ disk[<<"d", "i", "g", "e", "s", "t">>] # DigestContent

====
